---- MODULE Spec2Model ----
(***************************************************************************)
(* Model of the AST-based node schema extractor                            *)
(* (src/extract-node-schemas-ast.ts, class ASTNodeSchemaExtractor, the     *)
(* second, later iteration of the class in that file: lines 972-2161).     *)
(*                                                                         *)
(* Strings are sequences of tokens.  A token is either one character that  *)
(* a pattern of the code looks at ("V", "v", a decimal digit) or an opaque *)
(* word that contains no digit and does not end in "V" or "v" ("Foo",      *)
(* "index", ".node").  A path is a sequence of such strings, one per      *)
(* directory level, the last being the file name.                          *)
(***************************************************************************)
EXTENDS Integers, Sequences, FiniteSets, TLC

VARIABLES
  pc,        \* position of the run (or of the function under analysis)
  fsys,      \* the file tree: a sequence of [path, c] in enumeration order
  nodeFiles, \* extractAllSchemas: the files findNodeFiles returned
  groups,    \* extractAllSchemas: nodeFileGroups, in Object.entries order
  gi,        \* extractAllSchemas: index of the next group of the loop
  db,        \* this.database
  versions,  \* processNodeGroupAST: the versions array of the last group
  calls,     \* what the parseNodeFile calls of the last group returned
  arg,       \* input of the function under analysis
  ret        \* its result

vars == <<pc, fsys, nodeFiles, groups, gi, db, versions, calls, arg, ret>>

None == [none |-> TRUE]

(***************************************************************************)
(* Generic sequence helpers                                                *)
(***************************************************************************)
RECURSIVE SumSeq(_)
SumSeq(s) == IF s = <<>> THEN 0 ELSE Head(s) + SumSeq(Tail(s))

RECURSIVE Flatten(_)
Flatten(ss) == IF ss = <<>> THEN <<>> ELSE Head(ss) \o Flatten(Tail(ss))

RECURSIVE SelectSeqIdx(_, _, _)
\* indices i (ascending) of s, starting at i, for which keep[i] holds
SelectSeqIdx(keep, i, n) ==
  IF i > n THEN <<>>
  ELSE (IF keep[i] THEN <<i>> ELSE <<>>) \o SelectSeqIdx(keep, i + 1, n)

Max(a, b) == IF a >= b THEN a ELSE b

(***************************************************************************)
(* Strings (token sequences) and the regular expressions of the code       *)
(***************************************************************************)
Digits == {"0", "1", "2", "3", "4", "5", "6", "7", "8", "9"}

DigitVal(c) ==
  CASE c = "0" -> 0 [] c = "1" -> 1 [] c = "2" -> 2 [] c = "3" -> 3
    [] c = "4" -> 4 [] c = "5" -> 5 [] c = "6" -> 6 [] c = "7" -> 7
    [] c = "8" -> 8 [] c = "9" -> 9

RECURSIVE parseInt(_)
\* parseInt of a non-empty run of decimal digits
parseInt(ds) ==
  IF ds = <<>> THEN 0
  ELSE parseInt(SubSeq(ds, 1, Len(ds) - 1)) * 10 + DigitVal(ds[Len(ds)])

AllDigits(s) == \A i \in 1..Len(s) : s[i] \in Digits

RECURSIVE TrailingDigits(_)
\* length of the maximal run of digits at the end of s
TrailingDigits(s) ==
  IF s = <<>> \/ s[Len(s)] \notin Digits THEN 0
  ELSE 1 + TrailingDigits(SubSeq(s, 1, Len(s) - 1))

\* s.match(/[Vv](\d+)$/): the matched digits, or <<>> when there is no match
MatchVerSuffix(s) ==
  LET k == TrailingDigits(s)
      n == Len(s)
  IN IF k >= 1 /\ n - k >= 1 /\ s[n - k] \in {"V", "v"}
     THEN SubSeq(s, n - k + 1, n) ELSE <<>>

\* s.match(/^[Vv](\d+)$/): the matched digits, or <<>>
MatchVerWhole(s) ==
  IF Len(s) >= 2 /\ s[1] \in {"V", "v"} /\ AllDigits(Tail(s)) THEN Tail(s) ELSE <<>>

\* part.match(/^[Vv][2-9]$/)
MatchV2to9(s) ==
  Len(s) = 2 /\ s[1] \in {"V", "v"} /\ s[2] \in (Digits \ {"0", "1"})

\* part.match(/^[Vv]\d{2,}$/)
MatchVHigh(s) ==
  Len(s) >= 3 /\ s[1] \in {"V", "v"} /\ AllDigits(Tail(s))

\* s.match(/[Vv][2-9]$/)
MatchSuffixV2to9(s) ==
  Len(s) >= 2 /\ s[Len(s) - 1] \in {"V", "v"} /\ s[Len(s)] \in (Digits \ {"0", "1"})

\* s.match(/[Vv]\d{2,}$/)
MatchSuffixVHigh(s) == Len(MatchVerSuffix(s)) >= 2

\* s.replace(/[Vv]\d+$/, '')
StripVerSuffix(s) ==
  LET m == MatchVerSuffix(s)
  IN IF m = <<>> THEN s ELSE SubSeq(s, 1, Len(s) - Len(m) - 1)

LowerTok(t) ==
  CASE t = "V" -> "v"
    [] t = "Foo" -> "foo"
    [] t = "Bar" -> "bar"
    [] t = "Constructor" -> "constructor"
    [] t = "Trigger" -> "trigger"
    [] t = "Test" -> "test"
    [] t = "HttpRequest" -> "httprequest"
    [] t = "GoogleSheets" -> "googlesheets"
    [] t = "GoogleDrive" -> "googledrive"
    [] OTHER -> t

\* s.toLowerCase()
toLowerCase(s) == [i \in 1..Len(s) |-> LowerTok(s[i])]

\* s.includes(sub), for a non-empty sub
Includes(s, sub) ==
  \E i \in 1..Len(s) :
    i + Len(sub) - 1 <= Len(s) /\ SubSeq(s, i, i + Len(sub) - 1) = sub

\* the '.node.ts' of a node file's name
NodeExt == <<".node", ".ts">>

\* s.endsWith(suffix)
EndsWith(s, suffix) ==
  Len(s) >= Len(suffix) /\ SubSeq(s, Len(s) - Len(suffix) + 1, Len(s)) = suffix

\* path.basename(p)
basename(p) == p[Len(p)]

\* path.dirname(p)
dirname(p) == SubSeq(p, 1, Len(p) - 1)

\* path.basename(p, '.node.ts')
basenameNode(p) ==
  LET f == basename(p)
  IN IF Len(f) > Len(NodeExt) /\ EndsWith(f, NodeExt)
     THEN SubSeq(f, 1, Len(f) - Len(NodeExt)) ELSE f

\* path.basename(path.dirname(p))
dirBasename(p) == IF Len(p) >= 2 THEN p[Len(p) - 1] ELSE <<>>

(***************************************************************************)
(* Literal values (extractValueFromNode, lines 1421-1452)                  *)
(*                                                                         *)
(* A scalar the Literal Interpreter returns is [k, v]: k its kind and v a  *)
(* number standing for the value: for a string 0 is '' and n > 0 the n-th  *)
(* non-empty string; for a number the number itself; for a boolean 0/1;    *)
(* for an array its length.  Undef is JavaScript's undefined (the property *)
(* is absent, or its initializer is not a literal, or is the object {}).   *)
(***************************************************************************)
Undef == [k |-> "undef", v |-> 0]
Str(n) == [k |-> "str", v |-> n]
Num(n) == [k |-> "num", v |-> n]
Bool(b) == [k |-> "bool", v |-> IF b THEN 1 ELSE 0]
Arr(n) == [k |-> "arr", v |-> n]

\* JavaScript truthiness of a literal value
Truthy(x) ==
  CASE x.k = "undef" -> FALSE
    [] x.k = "str" -> x.v # 0
    [] x.k = "num" -> x.v # 0
    [] x.k = "bool" -> x.v = 1
    [] OTHER -> TRUE

(***************************************************************************)
(* A visibility mapping (displayOptions.show / .hide) as Object.entries    *)
(* sees it: a sequence of [key, isList, vals].  isList tells whether the   *)
(* accepted values are an array (Array.isArray); vals are the values, a    *)
(* non-list value being a one-element vals.  No entry: the mapping is      *)
(* absent.                                                                 *)
(***************************************************************************)
\* a parameter name: the literal name and the "_when_<key>_<value>" suffixes
PlainName(v) == [base |-> v, when |-> <<>>]

\* parsePropertyObject, lines 1573-1616: <<>> is null
parsePropertyObject(obj) ==
  IF Truthy(obj.name) /\ Truthy(obj.type)
  THEN << [ name |-> PlainName(obj.name),
            displayName |-> PlainName(IF Truthy(obj.displayName) THEN obj.displayName ELSE obj.name),
            type |-> obj.type,
            description |-> obj.description,
            displayOptions |-> obj.displayOptions,
            workflowJsonStructure |->
              [ parameterName |-> PlainName(obj.name),
                type |-> obj.type,
                conditionalContext |-> <<>> ] ] >>
  ELSE <<>>

\* the loop of findDirectProperties (lines 1532-1539, 1553-1560) over the
\* object literals of a file's parameter arrays, in visit order
RECURSIVE parseElements(_)
parseElements(objs) ==
  IF objs = <<>> THEN <<>>
  ELSE parsePropertyObject(Head(objs)) \o parseElements(Tail(objs))

(***************************************************************************)
(* expandConditionalParameters, lines 1476-1519                            *)
(***************************************************************************)
\* lines 1490-1504: the conditional variant of param for (key, value)
conditionalParam(param, key, value) ==
  [ param EXCEPT
      !.name = [base |-> param.name.base, when |-> Append(param.name.when, <<key, value>>)],
      !.displayName = [base |-> param.displayName.base,
                       when |-> Append(param.displayName.when, <<key, value>>)],
      !.workflowJsonStructure =
         [ parameterName |-> param.name,
           type |-> param.workflowJsonStructure.type,
           conditionalContext |-> <<key, value>> ] ]

\* a variant for every value, Array.isArray (line 1487) left out
variantsOfEntryAnyValue(param, e) ==
  [i \in 1..Len(e.vals) |-> conditionalParam(param, e.key, e.vals[i])]

\* lines 1488-1508: one variant per value of one show entry
variantsOfEntry(param, e) ==
  IF e.isList
  THEN [i \in 1..Len(e.vals) |-> conditionalParam(param, e.key, e.vals[i])]
  ELSE <<>>

\* lines 1486-1510: the variants of one parameter, entry by entry
variantsOfParam(param) ==
  LET show == param.displayOptions.show
  IN Flatten([i \in 1..Len(show) |-> variantsOfEntry(param, show[i])])

\* the variants pushed right behind their parameter, not behind the last one
expandConditionalParametersInPlace(parameters) ==
  Flatten([i \in 1..Len(parameters) |-> <<parameters[i]>> \o variantsOfParam(parameters[i])])

expandConditionalParameters(parameters) ==
  parameters \o Flatten([i \in 1..Len(parameters) |-> variantsOfParam(parameters[i])])

(***************************************************************************)
(* determineExtractionQuality, lines 2095-2107                             *)
(***************************************************************************)
\* determineExtractionQuality with >= for the > of line 2098
determineExtractionQualityAtLeastHalf(parameters) ==
  LET paramCount == Len(parameters)
      hasTypes == \A i \in 1..paramCount : Truthy(parameters[i].type)
      described == Cardinality({i \in 1..paramCount : Truthy(parameters[i].description)})
      hasDescriptions == 2 * described >= paramCount
  IN IF paramCount >= 5 /\ hasTypes /\ hasDescriptions THEN "high"
     ELSE IF paramCount >= 2 /\ hasTypes THEN "medium"
     ELSE "low"

determineExtractionQuality(parameters) ==
  LET paramCount == Len(parameters)
      hasTypes == \A i \in 1..paramCount : Truthy(parameters[i].type)
      described == Cardinality({i \in 1..paramCount : Truthy(parameters[i].description)})
      \* filter(...).length > paramCount / 2, without the division
      hasDescriptions == 2 * described > paramCount
  IN IF paramCount >= 5 /\ hasTypes /\ hasDescriptions THEN "high"
     ELSE IF paramCount >= 2 /\ hasTypes THEN "medium"
     ELSE "low"

(***************************************************************************)
(* Extraction notes: [k, n, p], k the kind of note (its fixed text), n the *)
(* number it quotes and p the path or name it quotes.                      *)
(***************************************************************************)
Note(k, n, p) == [k |-> k, n |-> n, p |-> p]

\* `Wrapper file: VersionedNodeType with defaultVersion ...` (line 1298)
WrapperNoteKind == "Wrapper file: VersionedNodeType"

\* note.includes('Wrapper file: VersionedNodeType') for some note (line 1195)
HasWrapperNote(notes) == \E i \in 1..Len(notes) : notes[i].k = WrapperNoteKind

(***************************************************************************)
(* calculateVersionPriority, lines 1188-1242                               *)
(***************************************************************************)
\* lines 1201-1213: versionNum
versionNumOf(filePath) ==
  LET fileVersionMatch == MatchVerSuffix(basenameNode(filePath))
      dirVersionMatch == MatchVerWhole(dirBasename(filePath))
      fromFile == IF fileVersionMatch # <<>> THEN parseInt(fileVersionMatch) ELSE 0
  IN IF dirVersionMatch # <<>> THEN Max(fromFile, parseInt(dirVersionMatch)) ELSE fromFile

\* line 1236: hasVersionedDir
hasVersionedDirOf(filePath) == \E i \in 1..Len(filePath) : MatchV2to9(filePath[i])

qualityBonus(q) == CASE q = "high" -> 50 [] q = "medium" -> 25 [] OTHER -> 0

calculateVersionPriority(filePath, schema) ==
  LET isWrapper == HasWrapperNote(schema.extractionNotes)
      versionNum == versionNumOf(filePath)
  IN (IF isWrapper THEN -100 ELSE 0)
     + (IF versionNum > 0 THEN versionNum * 50 ELSE 25)
     + Len(schema.parameters) * 5
     + qualityBonus(schema.extractionQuality)
     + (IF hasVersionedDirOf(filePath) THEN 30 ELSE 0)

(***************************************************************************)
(* selectBestVersion, lines 1244-1247: Array.prototype.sort is stable, so  *)
(* sorting by descending priority and taking element 0 returns the first   *)
(* element, in array order, of maximal priority.                           *)
(***************************************************************************)
RECURSIVE insertByPriority(_, _)
\* insert v behind every element whose priority is >= v's (stable)
insertByPriority(sorted, v) ==
  IF sorted = <<>> THEN <<v>>
  ELSE IF Head(sorted).priority >= v.priority
       THEN <<Head(sorted)>> \o insertByPriority(Tail(sorted), v)
       ELSE <<v>> \o sorted

RECURSIVE sortByPriorityDesc(_)
\* versions.sort((a, b) => b.priority - a.priority)
sortByPriorityDesc(vs) ==
  IF vs = <<>> THEN <<>>
  ELSE insertByPriority(sortByPriorityDesc(SubSeq(vs, 1, Len(vs) - 1)), vs[Len(vs)])

\* selectBestVersion returning the last element of the sorted array
selectBestVersionLast(vs) == sortByPriorityDesc(vs)[Len(vs)]

RECURSIVE insertByPriorityUnstable(_, _)
insertByPriorityUnstable(sorted, v) ==
  IF sorted = <<>> THEN <<v>>
  ELSE IF Head(sorted).priority > v.priority
       THEN <<Head(sorted)>> \o insertByPriorityUnstable(Tail(sorted), v)
       ELSE <<v>> \o sorted

RECURSIVE sortByPriorityDescUnstable(_)
sortByPriorityDescUnstable(vs) ==
  IF vs = <<>> THEN <<>>
  ELSE insertByPriorityUnstable(sortByPriorityDescUnstable(SubSeq(vs, 1, Len(vs) - 1)),
                                vs[Len(vs)])

\* selectBestVersion with a sort that puts the later of two equals first
selectBestVersionLastOfTies(vs) == sortByPriorityDescUnstable(vs)[1]

selectBestVersion(vs) == sortByPriorityDesc(vs)[1]

(***************************************************************************)
(* The file tree.  fs is a sequence of [path, c]: the files in the order   *)
(* the file system enumerates them (glob, readdirSync), paths relative to  *)
(* process.cwd().  A directory exists when a file lies under it.  c is     *)
(* what the syntax tree of the file holds, as far as the extractor looks:  *)
(*   readable        readFileSync succeeds                                 *)
(*   isWrapper       a class extends VersionedNodeType (lines 1668-1681)   *)
(*   defaultVersion  the numeric defaultVersion literal, in tenths         *)
(*                   (parseFloat, line 1686); NoVersion when there is none *)
(*   desc            what findNodeDescription's visit collects: "none",    *)
(*                   "partial" (keys but no displayName) or "named"        *)
(*   props           the object literals of `properties: [...]` and of     *)
(*                   `export const description = [...]`, in visit order    *)
(*   constProps      the exported array constants whose name contains      *)
(*                   'properties', each a sequence of object literals      *)
(*   spreads         findSpreadImports' module specifiers                  *)
(*   opImports       findOperationImports' module specifiers               *)
(* A module specifier is [rel, up, segs]: relative or not, the number of   *)
(* leading '../' and the remaining segments.                               *)
(***************************************************************************)
NoVersion == -1

IsFile(fs, p) == \E i \in 1..Len(fs) : fs[i].path = p

IsDir(fs, d) ==
  \E i \in 1..Len(fs) : Len(fs[i].path) > Len(d) /\ SubSeq(fs[i].path, 1, Len(d)) = d

existsSync(fs, p) == IsFile(fs, p) \/ IsDir(fs, p)

ContentOf(fs, p) == fs[CHOOSE i \in 1..Len(fs) : fs[i].path = p].c

\* readFileSync(p, 'utf8') returns (it throws otherwise)
CanRead(fs, p) == IsFile(fs, p) /\ ContentOf(fs, p).readable

RECURSIVE Dedup(_)
\* the distinct elements of s in order of first appearance
Dedup(s) ==
  IF s = <<>> THEN <<>>
  ELSE LET init == Dedup(SubSeq(s, 1, Len(s) - 1))
           x == s[Len(s)]
       IN IF \E i \in 1..Len(init) : init[i] = x THEN init ELSE Append(init, x)

\* readdirSync(d): the names directly under d
readdirSync(fs, d) ==
  LET under == SelectSeq(fs, LAMBDA f : Len(f.path) > Len(d) /\ SubSeq(f.path, 1, Len(d)) = d)
  IN Dedup([i \in 1..Len(under) |-> under[i].path[Len(d) + 1]])

\* glob('**/*<suffix>', {cwd: d}): the files under d whose name ends in suffix
globUnder(fs, d, suffix) ==
  LET hit == SelectSeq(fs, LAMBDA f : /\ Len(f.path) > Len(d)
                                     /\ SubSeq(f.path, 1, Len(d)) = d
                                     /\ Len(basename(f.path)) > Len(suffix)
                                     /\ EndsWith(basename(f.path), suffix))
  IN [i \in 1..Len(hit) |-> hit[i].path]

\* a path with ext appended to its last segment
WithExt(p, ext) == [p EXCEPT ![Len(p)] = @ \o <<ext>>]

\* path.resolve(currentDir, importPath) for a relative specifier
resolveRelative(currentDir, imp) ==
  IF imp.up <= Len(currentDir)
  THEN SubSeq(currentDir, 1, Len(currentDir) - imp.up) \o imp.segs
  ELSE << <<"..">> >> \o imp.segs

\* the specifier itself, as existsSync and readFileSync take it: relative to cwd
rawImportPath(imp) ==
  IF imp.rel /\ imp.up > 0 THEN << <<"..">> >> \o imp.segs ELSE imp.segs

Extensions == <<".ts", ".js", ".json">>

\* resolveImportPath, lines 2067-2093
resolveImportPath(fs, imp, currentFilePath) ==
  LET resolvedPath == resolveRelative(dirname(currentFilePath), imp)
      withExt == SelectSeq([i \in 1..3 |-> WithExt(resolvedPath, Extensions[i])],
                           LAMBDA q : existsSync(fs, q))
      index == SelectSeq([i \in 1..3 |-> resolvedPath \o << <<"index", Extensions[i]>> >>],
                         LAMBDA q : existsSync(fs, q))
  IN IF ~imp.rel THEN rawImportPath(imp)
     ELSE IF withExt # <<>> THEN withExt[1]
     ELSE IF index # <<>> THEN index[1]
     ELSE rawImportPath(imp)

(***************************************************************************)
(* The property resolvers.  Each returns [props, notes]: the parameters it *)
(* contributes and the notes it pushes onto extractionNotes, in order.     *)
(***************************************************************************)
PN(props, notes) == [props |-> props, notes |-> notes]

\* the contributions merged: a parameter that is already there is dropped
ConcatPNDistinct(rs) ==
  PN(Dedup(Flatten([i \in 1..Len(rs) |-> rs[i].props])),
     Flatten([i \in 1..Len(rs) |-> rs[i].notes]))

\* the concatenation of a sequence of contributions
ConcatPN(rs) ==
  PN(Flatten([i \in 1..Len(rs) |-> rs[i].props]), Flatten([i \in 1..Len(rs) |-> rs[i].notes]))

\* findDirectProperties, lines 1521-1571
findDirectProperties(c) == parseElements(c.props)

\* resolveSpreadImport, lines 2039-2065
resolveSpreadImport(fs, imp, filePath) ==
  LET resolvedPath == resolveImportPath(fs, imp, filePath)
  IN IF ~existsSync(fs, resolvedPath)
     THEN PN(<<>>, <<Note("Could not resolve import", 0, imp.segs)>>)
     ELSE IF ~CanRead(fs, resolvedPath)
     THEN PN(<<>>, <<Note("Failed to resolve import", 0, imp.segs)>>)
     ELSE LET properties == findDirectProperties(ContentOf(fs, resolvedPath))
          IN PN(properties,
                IF Len(properties) > 0
                THEN <<Note("Resolved properties from", Len(properties), imp.segs)>>
                ELSE <<>>)

\* the loop over spread imports, left at the first import that names no file
resolveSpreadsUntilMiss(fs, c, filePath) ==
  LET missing(i) == ~existsSync(fs, resolveImportPath(fs, c.spreads[i], filePath))
      last == IF \E i \in 1..Len(c.spreads) : missing(i)
              THEN CHOOSE i \in 1..Len(c.spreads) :
                     missing(i) /\ \A j \in 1..(i - 1) : ~missing(j)
              ELSE Len(c.spreads)
  IN ConcatPN([i \in 1..last |-> resolveSpreadImport(fs, c.spreads[i], filePath)])

\* the loop over spread imports (lines 1632-1635, 1790-1793, 1960-1963)
resolveSpreads(fs, c, filePath) ==
  ConcatPN([i \in 1..Len(c.spreads) |-> resolveSpreadImport(fs, c.spreads[i], filePath)])

\* parseOperationFile, lines 1856-1884
parseOperationFile(fs, operationFilePath) ==
  IF ~CanRead(fs, operationFilePath)
  THEN PN(<<>>, <<Note("Failed to parse operation file", 0, operationFilePath)>>)
  ELSE LET c == ContentOf(fs, operationFilePath)
           directProperties == findDirectProperties(c)
           direct == PN(directProperties,
                        IF Len(directProperties) > 0
                        THEN <<Note("Found properties in operation file",
                                    Len(directProperties), operationFilePath)>>
                        ELSE <<>>)
           constants == [i \in 1..Len(c.constProps) |->
                           LET ps == parseElements(c.constProps[i])
                           IN PN(ps, <<Note("Found properties from exported constant",
                                            Len(ps), <<>>)>>)]
       IN ConcatPN(<<direct>> \o constants)

\* parseResourceFile, lines 1825-1854
parseResourceFile(fs, resourceFilePath) ==
  IF ~CanRead(fs, resourceFilePath)
  THEN PN(<<>>, <<Note("Failed to parse resource file", 0, resourceFilePath)>>)
  ELSE LET c == ContentOf(fs, resourceFilePath)
           directProperties == findDirectProperties(c)
           direct == PN(directProperties,
                        IF Len(directProperties) > 0
                        THEN <<Note("Found properties in resource file",
                                    Len(directProperties), resourceFilePath)>>
                        ELSE <<>>)
           operations == [i \in 1..Len(c.opImports) |->
                            LET operationPath == resolveImportPath(fs, c.opImports[i], resourceFilePath)
                            IN IF existsSync(fs, operationPath)
                               THEN parseOperationFile(fs, operationPath)
                               ELSE PN(<<>>, <<>>)]
       IN ConcatPN(<<direct>> \o operations)

\* lines 1966-1968: the note about what versionDescription.ts contributed
noteVersionDescription(r) ==
  PN(r.props,
     r.notes \o (IF Len(r.props) > 0
                 THEN <<Note("Resolved properties from versionDescription.ts",
                             Len(r.props), <<>>)>>
                 ELSE <<>>))

\* parseVersionDescription, lines 1950-1974
parseVersionDescription(fs, versionDescFile) ==
  IF ~CanRead(fs, versionDescFile)
  THEN PN(<<>>, <<Note("Failed to parse versionDescription.ts", 0, <<>>)>>)
  ELSE noteVersionDescription(
         resolveSpreads(fs, ContentOf(fs, versionDescFile), versionDescFile))

\* detectV2Structure, lines 1641-1660
detectV2Structure(filePath) ==
  LET fileName == basenameNode(filePath)
      hasVersionedDir == \E i \in 1..Len(filePath) :
                            MatchV2to9(filePath[i]) \/ MatchVHigh(filePath[i])
      hasActionsDir == \E i \in 1..Len(filePath) : filePath[i] = <<"actions">>
      hasVersionedFileName == MatchSuffixV2to9(fileName) \/ MatchSuffixVHigh(fileName)
  IN hasVersionedDir \/ hasActionsDir \/ hasVersionedFileName

\* lines 1767-1794 of handleV2NodeStructure: the resource and operation
\* files of the actions directory, or the spread imports of the file
layeredProperties(fs, filePath, actionsDir) ==
  LET resourceFiles == globUnder(fs, actionsDir, <<".resource", ".ts">>)
      operationFiles == globUnder(fs, actionsDir, <<".operation", ".ts">>)
  IN IF existsSync(fs, actionsDir)
     THEN ConcatPN(
            << PN(<<>>, <<Note("Detected v2+ node structure with actions directory", 0, <<>>)>>) >>
            \o [i \in 1..Len(resourceFiles) |-> parseResourceFile(fs, resourceFiles[i])]
            \o [i \in 1..Len(operationFiles) |-> parseOperationFile(fs, operationFiles[i])])
     ELSE resolveSpreads(fs, ContentOf(fs, filePath), filePath)

\* lines 1796-1801 of handleV2NodeStructure: versionDescription.ts
withVersionDescription(fs, layered, versionDescFile) ==
  IF existsSync(fs, versionDescFile)
  THEN ConcatPN(<<layered, parseVersionDescription(fs, versionDescFile)>>)
  ELSE layered

\* handleV2NodeStructure, lines 1760-1804
handleV2NodeStructure(fs, filePath) ==
  withVersionDescription(
    fs,
    layeredProperties(fs, filePath, dirname(filePath) \o << <<"actions">> >>),
    dirname(filePath) \o << <<"actions">>, <<"versionDescription", ".ts">> >>)

\* resolveImportedProperties, lines 1618-1639
resolveImportedProperties(fs, c, filePath) ==
  IF detectV2Structure(filePath)
  THEN handleV2NodeStructure(fs, filePath)
  ELSE resolveSpreads(fs, c, filePath)

\* extractPropertiesAST, lines 1454-1474; the length of props is what line 1471
\* adds to totalParametersExtracted
expandAndNote(directProperties, imported) ==
  LET parameters == directProperties \o imported.props
      expandedParameters == expandConditionalParameters(parameters)
      conditionalCount == Len(expandedParameters) - Len(parameters)
  IN PN(expandedParameters,
        (IF Len(directProperties) > 0
         THEN <<Note("Found direct properties", Len(directProperties), <<>>)>> ELSE <<>>)
        \o imported.notes
        \o (IF conditionalCount > 0
            THEN <<Note("Expanded conditional parameters", conditionalCount, <<>>)>>
            ELSE <<>>))

extractPropertiesAST(fs, c, filePath) ==
  expandAndNote(findDirectProperties(c), resolveImportedProperties(fs, c, filePath))

(***************************************************************************)
(* Version Dispatcher Resolver                                             *)
(***************************************************************************)
RECURSIVE ToDigits(_)
\* the decimal digits of a natural number, as `${n}` prints it
ToDigits(n) ==
  LET d == <<"0", "1", "2", "3", "4", "5", "6", "7", "8", "9">>[(n % 10) + 1]
  IN IF n < 10 THEN <<d>> ELSE ToDigits(n \div 10) \o <<d>>

\* lines 1704-1717: [base name, least declared version (tenths), implementation]
OverrideRules ==
  << [base |-> <<"HttpRequest">>, from |-> 40, use |-> 3],
     [base |-> <<"GoogleSheets">>, from |-> 30, use |-> 2],
     [base |-> <<"GoogleDrive">>, from |-> 30, use |-> 3] >>

RECURSIVE applyOverrides(_, _, _, _)
\* the if statements of lines 1705-1717, in order
applyOverrides(rules, baseName, version, targetVersion) ==
  IF rules = <<>> THEN targetVersion
  ELSE applyOverrides(Tail(rules), baseName, version,
                      IF baseName = Head(rules).base /\ version >= Head(rules).from
                      THEN Head(rules).use ELSE targetVersion)

\* lines 1702-1717 with the override rules left out
targetVersionOfLiteral(baseName, version) == version \div 10

\* lines 1702-1717: version is in tenths, Math.floor(version) is version \div 10
targetVersionOf(baseName, version) ==
  applyOverrides(OverrideRules, baseName, version, version \div 10)

\* lines 1720-1738: the paths the pattern loop tests, in order
patternPaths(wrapperFilePath, targetVersion) ==
  LET nodeDir == dirname(wrapperFilePath)
      baseName == basenameNode(wrapperFilePath)
      digits == ToDigits(targetVersion)
      versionPatterns == << <<"V">> \o digits, <<"v">> \o digits, baseName \o <<"V">> \o digits >>
      fileOf(pattern) == baseName \o pattern \o NodeExt
  IN Flatten([i \in 1..3 |->
       << nodeDir \o <<versionPatterns[i], fileOf(versionPatterns[i])>>,
          nodeDir \o <<toLowerCase(versionPatterns[i]), fileOf(versionPatterns[i])>> >>])

RECURSIVE scanVersionDirs(_, _, _, _)
\* lines 1743-1752: <<>> is "nothing found"; readdirSync of an entry that is
\* a file throws, which the catch of line 1753 turns into "nothing found"
scanVersionDirs(fs, nodeDir, baseName, entries) ==
  IF entries = <<>> THEN <<>>
  ELSE LET entry == Head(entries)
           versionDir == nodeDir \o <<entry>>
           files == readdirSync(fs, versionDir)
           hits == SelectSeq(files, LAMBDA f : EndsWith(f, NodeExt) /\ Includes(f, baseName))
       IN IF MatchVerWhole(entry) = <<>>
          THEN scanVersionDirs(fs, nodeDir, baseName, Tail(entries))
          ELSE IF IsFile(fs, versionDir) THEN <<>>
          ELSE IF hits # <<>> THEN versionDir \o <<hits[1]>>
          ELSE scanVersionDirs(fs, nodeDir, baseName, Tail(entries))

\* findImplementationFileForVersion with the scan of lines 1741-1752 moved
\* ahead of the pattern loop
findImplementationFileScanFirst(fs, wrapperFilePath, version) ==
  LET nodeDir == dirname(wrapperFilePath)
      baseName == basenameNode(wrapperFilePath)
      tried == SelectSeq(patternPaths(wrapperFilePath, targetVersionOf(baseName, version)),
                         LAMBDA q : existsSync(fs, q))
      scanned == scanVersionDirs(fs, nodeDir, baseName, readdirSync(fs, nodeDir))
  IN IF scanned # <<>> THEN scanned
     ELSE IF tried # <<>> THEN tried[1]
     ELSE <<>>

\* findImplementationFileForVersion, lines 1697-1758: <<>> is null
findImplementationFileForVersion(fs, wrapperFilePath, version) ==
  LET nodeDir == dirname(wrapperFilePath)
      baseName == basenameNode(wrapperFilePath)
      tried == SelectSeq(patternPaths(wrapperFilePath, targetVersionOf(baseName, version)),
                         LAMBDA q : existsSync(fs, q))
  IN IF tried # <<>> THEN tried[1]
     ELSE scanVersionDirs(fs, nodeDir, baseName, readdirSync(fs, nodeDir))

(***************************************************************************)
(* parseNodeFile and what it calls                                         *)
(***************************************************************************)
\* findNodeDescription, lines 1341-1397: found is "the result is not null"
findNodeDescription(c, filePath) ==
  LET fileName == basenameNode(filePath)
      dirName == dirBasename(filePath)
      found == IF c.desc # "none"
               THEN <<Note("Found description", 0, <<>>)>> ELSE <<>>
  IN IF c.desc = "named"
     THEN [found |-> TRUE, nameFrom |-> "description", notes |-> found]
     ELSE IF dirName # <<"nodes">> /\ dirName # <<"base">> /\ ~Includes(fileName, <<"Test">>)
     THEN [found |-> TRUE, nameFrom |-> "directory",
           notes |-> Append(found, Note("Inferred name from directory", 0, <<dirName>>))]
     ELSE IF fileName # <<"index">>
     THEN [found |-> TRUE, nameFrom |-> "filename",
           notes |-> Append(found, Note("Inferred name from filename", 0, <<fileName>>))]
     ELSE [found |-> c.desc # "none", nameFrom |-> "unknown", notes |-> found]

NullSchema ==
  [ nameFrom |-> "null", parameters |-> <<>>, extractionQuality |-> "low",
    extractionNotes |-> <<>>, sourceFile |-> <<>> ]

\* a result of parseNodeFile: the schema (ok: it is not null), the strings
\* pushed onto knownIssues and the amount added to totalParametersExtracted
Parsed(ok, schema, issues, total) ==
  [ok |-> ok, schema |-> schema, issues |-> issues, total |-> total]

\* lines 1314-1338 of extractNodeSchemaAST; sourceFile is the file it was given
schemaOf(description, extracted, filePath) ==
  IF ~description.found THEN Parsed(FALSE, NullSchema, <<>>, 0)
  ELSE Parsed(TRUE,
              [ nameFrom |-> description.nameFrom,
                parameters |-> extracted.props,
                extractionQuality |-> determineExtractionQuality(extracted.props),
                extractionNotes |-> description.notes \o extracted.notes,
                sourceFile |-> filePath ],
              <<>>, Len(extracted.props))

\* extractNodeSchemaAST, lines 1309-1339
extractNodeSchemaAST(fs, c, filePath) ==
  schemaOf(findNodeDescription(c, filePath), extractPropertiesAST(fs, c, filePath), filePath)

\* lines 1278-1279 with the wrapper taken for its own implementation
implementationFileOfItself(fs, filePath, c) ==
  IF c.isWrapper /\ c.defaultVersion # NoVersion /\ c.defaultVersion # 0
  THEN filePath
  ELSE <<>>

\* lines 1278-1279: the implementation file of a wrapper, <<>> for none
implementationFileOf(fs, filePath, c) ==
  IF c.isWrapper /\ c.defaultVersion # NoVersion /\ c.defaultVersion # 0
  THEN findImplementationFileForVersion(fs, filePath, c.defaultVersion)
  ELSE <<>>

\* lines 1297-1299 left out: no note on the schema of a wrapper
withoutWrapperNote(c, own) == own

\* lines 1297-1299: the note on the schema read from a wrapper itself
withWrapperNote(c, own) ==
  IF c.isWrapper /\ own.ok
  THEN [own EXCEPT !.schema.extractionNotes =
          Append(@, Note(WrapperNoteKind, c.defaultVersion, <<>>))]
  ELSE own

RECURSIVE parseNodeFile(_, _)
RECURSIVE parseResolved(_, _, _)
\* lines 1281-1301 of parseNodeFile: the implementation file is parsed in
\* place of the wrapper when there is one
parseResolved(fs, filePath, implementationFile) ==
  IF implementationFile # <<>>
  THEN parseNodeFile(fs, implementationFile)
  ELSE withWrapperNote(ContentOf(fs, filePath),
                       extractNodeSchemaAST(fs, ContentOf(fs, filePath), filePath))

\* parseNodeFile, lines 1257-1307
parseNodeFile(fs, filePath) ==
  IF ~CanRead(fs, filePath)
  THEN Parsed(FALSE, NullSchema, <<Note("Error processing", 0, filePath)>>, 0)
  ELSE parseResolved(fs, filePath, implementationFileOf(fs, filePath, ContentOf(fs, filePath)))

(***************************************************************************)
(* Grouping (lines 1102-1141)                                              *)
(***************************************************************************)
\* 'packages/nodes-base/nodes', the root of the glob of line 1104
NodesRoot == << <<"packages">>, <<"nodes-base">>, <<"nodes">> >>

\* findNodeFiles, lines 1102-1111
findNodeFiles(fs) ==
  LET hit == SelectSeq(fs, LAMBDA f :
               /\ Len(f.path) > Len(NodesRoot)
               /\ SubSeq(f.path, 1, Len(NodesRoot)) = NodesRoot
               /\ Len(basename(f.path)) > Len(NodeExt)
               /\ EndsWith(basename(f.path), NodeExt)
               /\ \A i \in (Len(NodesRoot) + 1)..(Len(f.path) - 1) :
                     f.path[i] \notin {<<"test">>, <<"tests">>})
  IN [i \in 1..Len(hit) |-> hit[i].path]

\* extractBaseNodeName, lines 1127-1141
extractBaseNodeName(filePath) ==
  LET cleanFileName == StripVerSuffix(basenameNode(filePath))
      cleanDirName == StripVerSuffix(dirBasename(filePath))
  IN IF cleanFileName = <<"index">> \/ Includes(cleanFileName, <<"Test">>)
     THEN toLowerCase(cleanDirName)
     ELSE toLowerCase(cleanFileName)

\* the keys that `groups`, an object literal, inherits: groups[key] is truthy
\* before anything was grouped
InheritedKeys == {<<"constructor">>, <<"__proto__">>}

\* lines 1118-1121: groups[baseName] is inherited, is not replaced by [], and
\* has no push: a TypeError leaves groupNodeFilesByBaseName
groupingThrows(files) ==
  \E i \in 1..Len(files) : extractBaseNodeName(files[i]) \in InheritedKeys

RECURSIVE groupNodeFilesByBaseName(_)
\* groupNodeFilesByBaseName, lines 1113-1125: the entries [key, files] of the
\* groups object, in insertion order
groupNodeFilesByBaseName(files) ==
  IF files = <<>> THEN <<>>
  ELSE LET init == groupNodeFilesByBaseName(SubSeq(files, 1, Len(files) - 1))
           file == files[Len(files)]
           baseName == extractBaseNodeName(file)
       IN IF \E i \in 1..Len(init) : init[i].key = baseName
          THEN [i \in 1..Len(init) |->
                  IF init[i].key = baseName
                  THEN [init[i] EXCEPT !.files = Append(@, file)] ELSE init[i]]
          ELSE Append(init, [key |-> baseName, files |-> <<file>>])

(***************************************************************************)
(* The database and the processing of one group (lines 1143-1186,          *)
(* 1249-1255)                                                              *)
(***************************************************************************)
\* a quotient of two numbers, kept exact
Quot(n, d) == [num |-> n, den |-> d]

\* lines 1040-1052
InitDatabase ==
  [ nodeCount |-> 0, highQuality |-> 0, mediumQuality |-> 0, lowQuality |-> 0,
    totalParametersExtracted |-> 0, averageParametersPerNode |-> Quot(0, 1),
    nodes |-> <<>>, knownIssues |-> <<>> ]

\* this.database.nodes = { [key]: schema }
setNodeAfresh(nodes, key, schema) == <<[key |-> key, schema |-> schema]>>

\* this.database.nodes[key] = schema
setNode(nodes, key, schema) ==
  IF \E i \in 1..Len(nodes) : nodes[i].key = key
  THEN [i \in 1..Len(nodes) |->
          IF nodes[i].key = key THEN [key |-> key, schema |-> schema] ELSE nodes[i]]
  ELSE Append(nodes, [key |-> key, schema |-> schema])

\* updateQualityStats with every schema counted as low
updateQualityStatsAsLow(d, schema) == [d EXCEPT !.lowQuality = @ + 1]

\* updateQualityStats, lines 1249-1255
updateQualityStats(d, schema) ==
  CASE schema.extractionQuality = "high" -> [d EXCEPT !.highQuality = @ + 1]
    [] schema.extractionQuality = "medium" -> [d EXCEPT !.mediumQuality = @ + 1]
    [] OTHER -> [d EXCEPT !.lowQuality = @ + 1]

\* what a call of parseNodeFile leaves in the database
afterParse(d, parsed) ==
  [d EXCEPT !.knownIssues = @ \o parsed.issues,
            !.totalParametersExtracted = @ + parsed.total]

\* lines 1167-1169 and 1180-1182
store(d, key, schema) ==
  updateQualityStats([d EXCEPT !.nodes = setNode(@, key, schema), !.nodeCount = @ + 1], schema)

\* lines 1180-1182 without the test of line 1178
storeParsedAlways(d, filePath, parsed) ==
  store(afterParse(d, parsed), extractBaseNodeName(filePath), parsed.schema)

\* lines 1180-1182: the schema, when there is one, is stored
storeParsed(d, filePath, parsed) ==
  IF parsed.ok
  THEN store(afterParse(d, parsed), extractBaseNodeName(filePath), parsed.schema)
  ELSE afterParse(d, parsed)

\* processNodeFileAST, lines 1176-1186
processNodeFileAST(fs, d, filePath) == storeParsed(d, filePath, parseNodeFile(fs, filePath))

\* lines 1153-1156: the files whose schema is not null, with their priority
versionsFrom(files, parsed) ==
  LET kept == SelectSeqIdx([i \in 1..Len(files) |-> parsed[i].ok], 1, Len(files))
  IN [j \in 1..Len(kept) |->
        [ schema |-> parsed[kept[j]].schema,
          filePath |-> files[kept[j]],
          priority |-> calculateVersionPriority(files[kept[j]], parsed[kept[j]].schema) ]]

\* lines 1151-1157: the versions array
versionsOf(fs, files) ==
  versionsFrom(files, [i \in 1..Len(files) |-> parseNodeFile(fs, files[i])])

RECURSIVE afterParses(_, _, _)
\* the database after parseNodeFile of every file of the group
afterParses(fs, d, files) ==
  IF files = <<>> THEN d
  ELSE afterParses(fs, afterParse(d, parseNodeFile(fs, Head(files))), Tail(files))

\* lines 1159-1166 without the push of lines 1163-1165
winnerOfUnnoted(vs) == selectBestVersion(vs)

\* lines 1159-1166: the winner, with the selection note pushed
winnerOf(vs) ==
  LET bestVersion == selectBestVersion(vs)
  IN [bestVersion EXCEPT !.schema.extractionNotes =
        Append(@, Note("Selected best version from candidates", Len(vs), bestVersion.filePath))]

\* lines 1159-1173: the best version is stored when there is one
storeBest(d, baseName, vs) ==
  IF Len(vs) > 0 THEN store(d, baseName, winnerOf(vs).schema) ELSE d

\* processNodeGroupAST, lines 1143-1174
processNodeGroupAST(fs, d, baseName, files) ==
  IF Len(files) = 1 THEN processNodeFileAST(fs, d, files[1])
  ELSE storeBest(afterParses(fs, d, files), baseName, versionsOf(fs, files))

\* generateStats with the guard of line 2111 left out
generateStatsUnguarded(d) ==
  [d EXCEPT !.averageParametersPerNode = Quot(d.totalParametersExtracted, d.nodeCount)]

\* generateStats, lines 2109-2114
generateStats(d) ==
  [d EXCEPT !.averageParametersPerNode =
     IF d.nodeCount > 0 THEN Quot(d.totalParametersExtracted, d.nodeCount) ELSE Quot(0, 1)]

(***************************************************************************)
(* The file trees of the runs                                              *)
(***************************************************************************)
File(path, c) == [path |-> path, c |-> c]

Lit(name, type, description, show, hide) ==
  [ name |-> name, displayName |-> Undef, type |-> type, description |-> description,
    displayOptions |-> [show |-> show, hide |-> hide] ]

ShowEntry(key, isList, vals) == [key |-> key, isList |-> isList, vals |-> vals]

\* { displayName: 'A', name: 'a', type: 'string', description: '...' }
LitDescribed(n) == Lit(Str(n), Str(1), Str(1), <<>>, <<>>)
\* { name: 'b', type: 'string' }
LitPlain(n) == Lit(Str(n), Str(1), Undef, <<>>, <<>>)
\* { name: 'c', type: 'string', displayOptions: { show: { operation: ['insert', 'update'] } } }
LitConditional(n) == Lit(Str(n), Str(1), Str(1), <<ShowEntry(1, TRUE, <<1, 2>>)>>, <<>>)
\* { name: 'd' }
LitNoType(n) == Lit(Str(n), Undef, Str(1), <<>>, <<>>)
\* { name: 'e', type: [] }
LitEmptyArrayType(n) == Lit(Str(n), Arr(0), Undef, <<>>, <<>>)
\* { type: 'string', description: '...' }
LitNoName == Lit(Undef, Str(1), Str(1), <<>>, <<>>)

Content(readable, isWrapper, defaultVersion, desc, props) ==
  [ readable |-> readable, isWrapper |-> isWrapper, defaultVersion |-> defaultVersion,
    desc |-> desc, props |-> props, constProps |-> <<>>, spreads |-> <<>>,
    opImports |-> <<>> ]

\* a node with two parameters
NodeContents_Plain == Content(TRUE, FALSE, NoVersion, "named", <<LitDescribed(1), LitPlain(2)>>)
\* a wrapper: `extends VersionedNodeType`, defaultVersion: 2
NodeContents_Wrapper == Content(TRUE, TRUE, 20, "named", <<>>)

\* what a node file of a run may hold
NodeContents ==
  { NodeContents_Plain,
    Content(TRUE, FALSE, NoVersion, "named", [i \in 1..5 |-> LitDescribed(i)]),
    Content(TRUE, FALSE, NoVersion, "partial",
            <<LitConditional(1), LitNoType(2), LitNoName, LitEmptyArrayType(3)>>),
    Content(FALSE, FALSE, NoVersion, "none", <<>>),
    Content(TRUE, FALSE, NoVersion, "none", <<>>),
    NodeContents_Wrapper,
    Content(TRUE, TRUE, NoVersion, "named", <<LitDescribed(1), LitPlain(2)>>) }

NodeFile(dirs, stem) == NodesRoot \o dirs \o <<stem \o NodeExt>>

\* the node files a run may find, in the order the file system lists them
NodePaths ==
  << NodeFile(<< <<"Foo">> >>, <<"Foo">>),
     NodeFile(<< <<"Foo">> >>, <<"index">>),
     NodeFile(<< <<"Foo">>, <<"V", "1">> >>, <<"Foo", "V", "1">>),
     NodeFile(<< <<"Foo">>, <<"V", "2">> >>, <<"Foo", "V", "2">>),
     NodeFile(<<>>, <<"index">>) >>

\* the most node files in the tree of a run
MaxFiles == 3

Reverse(s) == [i \in 1..Len(s) |-> s[Len(s) + 1 - i]]

\* the tree that lists the files of NodePaths numbered in S, in the order of
\* NodePaths or in the reverse order, file i of the listing holding cs[i]
TreeOf(S, reversed, cs) ==
  LET idx == SelectSeqIdx([i \in 1..Len(NodePaths) |-> i \in S], 1, Len(NodePaths))
      fwd == [j \in 1..Len(idx) |-> NodePaths[idx[j]]]
      ps == IF reversed THEN Reverse(fwd) ELSE fwd
  IN [i \in 1..Len(ps) |-> File(ps[i], cs[i])]

(***************************************************************************)
(* The run: extractAllSchemas, lines 1075-1100                             *)
(***************************************************************************)
Init ==
  /\ pc = "start"
  /\ \E S \in {S \in SUBSET (1..Len(NodePaths)) : Cardinality(S) <= MaxFiles} :
       \E reversed \in {r \in BOOLEAN : Cardinality(S) >= 2 \/ ~r} :
         \E cs \in [1..Cardinality(S) -> NodeContents] :
           fsys = TreeOf(S, reversed, cs)
  /\ nodeFiles = <<>>
  /\ groups = <<>>
  /\ gi = 1
  /\ db = InitDatabase
  /\ versions = <<>>
  /\ calls = <<>>
  /\ arg = None
  /\ ret = None

\* lines 1079-1084: the files are found and grouped
FindAndGroup ==
  /\ pc = "start"
  /\ nodeFiles' = findNodeFiles(fsys)
  /\ groups' = groupNodeFilesByBaseName(findNodeFiles(fsys))
  /\ pc' = "loop"
  /\ UNCHANGED <<fsys, gi, db, versions, calls, arg, ret>>

\* lines 1087-1094 without the try: the loop is left at the first group whose
\* processing pushed onto knownIssues
ProcessGroupStopsOnError ==
  /\ pc = "loop"
  /\ gi <= Len(groups)
  /\ db' = processNodeGroupAST(fsys, db, groups[gi].key, groups[gi].files)
  /\ versions' = IF Len(groups[gi].files) = 1 THEN <<>>
                 ELSE versionsOf(fsys, groups[gi].files)
  /\ calls' = [i \in 1..Len(groups[gi].files) |->
                  [filePath |-> groups[gi].files[i],
                   result |-> parseNodeFile(fsys, groups[gi].files[i])]]
  /\ gi' = gi + 1
  /\ pc' = IF \E i \in 1..Len(groups[gi].files) :
                parseNodeFile(fsys, groups[gi].files[i]).issues # <<>>
           THEN "failed" ELSE pc
  /\ UNCHANGED <<fsys, nodeFiles, groups, arg, ret>>

\* lines 1087-1094: one iteration of the loop over the groups
ProcessGroup ==
  /\ pc = "loop"
  /\ gi <= Len(groups)
  /\ db' = processNodeGroupAST(fsys, db, groups[gi].key, groups[gi].files)
  /\ versions' = IF Len(groups[gi].files) = 1 THEN <<>>
                 ELSE versionsOf(fsys, groups[gi].files)
  /\ calls' = [i \in 1..Len(groups[gi].files) |->
                  [filePath |-> groups[gi].files[i],
                   result |-> parseNodeFile(fsys, groups[gi].files[i])]]
  /\ gi' = gi + 1
  /\ UNCHANGED <<pc, fsys, nodeFiles, groups, arg, ret>>

\* line 1096: the loop is over, the statistics are generated
GenerateStats ==
  /\ pc = "loop"
  /\ gi > Len(groups)
  /\ db' = generateStats(db)
  /\ pc' = "extracted"
  /\ UNCHANGED <<fsys, nodeFiles, groups, gi, versions, calls, arg, ret>>

Next == FindAndGroup \/ ProcessGroup \/ GenerateStats

Spec == Init /\ [][Next]_vars

\* the node files of a run in which the implementation file that the wrapper
\* Foo/Foo.node.ts is redirected to may belong to another group:
\* Foo/V2/FooTriggerV2.node.ts is what the directory scan finds when
\* Foo/V2/FooV2.node.ts is missing
RedirectedPaths ==
  << NodeFile(<< <<"Foo">> >>, <<"Foo">>),
     NodeFile(<< <<"Foo">> >>, <<"index">>),
     NodeFile(<< <<"Foo">>, <<"V", "2">> >>, <<"Foo", "Trigger", "V", "2">>),
     NodeFile(<< <<"Foo">>, <<"V", "2">> >>, <<"Foo", "V", "2">>) >>

\* what such a file may hold
RedirectedContents ==
  { NodeContents_Wrapper,
    NodeContents_Plain,
    Content(TRUE, FALSE, NoVersion, "named", [i \in 1..5 |-> LitDescribed(i)]),
    Content(FALSE, FALSE, NoVersion, "none", <<>>) }

InitRedirected ==
  /\ pc = "start"
  /\ \E S \in SUBSET (1..Len(RedirectedPaths)) :
       \E reversed \in {r \in BOOLEAN : Cardinality(S) >= 2 \/ ~r} :
         \E cs \in [1..Cardinality(S) -> RedirectedContents] :
           LET idx == SelectSeqIdx([i \in 1..Len(RedirectedPaths) |-> i \in S],
                                   1, Len(RedirectedPaths))
               fwd == [j \in 1..Len(idx) |-> File(RedirectedPaths[idx[j]], cs[j])]
           IN fsys = IF reversed THEN Reverse(fwd) ELSE fwd
  /\ nodeFiles = <<>>
  /\ groups = <<>>
  /\ gi = 1
  /\ db = InitDatabase
  /\ versions = <<>>
  /\ calls = <<>>
  /\ arg = None
  /\ ret = None

SpecRedirected == InitRedirected /\ [][Next]_vars

\* what a step of Next does to the position in extractAllSchemas: Next can
\* take a step exactly when Advance can, and a step of the run is a step of
\* Next exactly when it is a step of Advance
Advance ==
  \/ pc = "start" /\ pc' = "loop" /\ gi' = gi
  \/ pc = "loop" /\ gi <= Len(groups) /\ gi' = gi + 1 /\ pc' = pc
  \/ pc = "loop" /\ gi > Len(groups) /\ pc' = "extracted" /\ gi' = gi

\* extractAllSchemas is sequential code that runs to its end: a step that can
\* be taken is taken
FairSpec == Init /\ [][Next]_vars /\ WF_<<pc, gi>>(Advance)

(***************************************************************************)
(* Properties of the run                                                   *)
(***************************************************************************)
\* a literal value that is neither absent nor the empty string nor the
\* empty array
NonEmpty(x) ==
  /\ x.k # "undef"
  /\ x.k \in {"str", "arr"} => x.v # 0

\* a name is non-empty: a derived name is `<name>_when_<key>_<value>`, never
\* empty
NonEmptyName(name) == name.when # <<>> \/ NonEmpty(name.base)

WellFormed(schema) ==
  \A i \in 1..Len(schema.parameters) :
     /\ NonEmptyName(schema.parameters[i].name)
     /\ NonEmpty(schema.parameters[i].type)

\* C1: every Parameter of every schema returned by parseNodeFile or stored in
\* database.nodes, base and derived alike, has a non-empty name and a
\* non-empty type.
C1_ParametersHaveNameAndType ==
  /\ \A i \in 1..Len(db.nodes) : WellFormed(db.nodes[i].schema)
  /\ \A i \in 1..Len(calls) : calls[i].result.ok => WellFormed(calls[i].result.schema)

\* the group the last iteration of the loop processed
LastGroup == groups[gi - 1]

\* the schema stored in database.nodes under a key
StoredSchema(key) == db.nodes[CHOOSE i \in 1..Len(db.nodes) : db.nodes[i].key = key].schema

\* the stored schema is the schema of candidate v: the only thing added to it
\* is the note that names v's file
Belongs(stored, v) ==
  stored = [v.schema EXCEPT !.extractionNotes =
              Append(@, Note("Selected best version from candidates", Len(versions), v.filePath))]

MultiFileGroupStored == gi > 1 /\ versions # <<>>

\* C2: the schema stored for a multi-file group with a schema-yielding
\* candidate belongs to a candidate whose priority is at least that of every
\* other candidate; a candidate whose priority is strictly the greatest is
\* the one stored, in whichever order the files were enumerated.
C2_WinnerHasMaximalPriority ==
  MultiFileGroupStored =>
    /\ \E i \in 1..Len(versions) :
         /\ Belongs(StoredSchema(LastGroup.key), versions[i])
         /\ \A j \in 1..Len(versions) : versions[i].priority >= versions[j].priority
    /\ \A i \in 1..Len(versions) :
         (\A j \in 1..Len(versions) \ {i} : versions[i].priority > versions[j].priority)
           => Belongs(StoredSchema(LastGroup.key), versions[i])

\* a strictly best candidate that is not the first of its group has won
C2_Witness ==
  /\ MultiFileGroupStored
  /\ \E i \in 2..Len(versions) :
       /\ \A j \in 1..Len(versions) \ {i} : versions[i].priority > versions[j].priority
       /\ Belongs(StoredSchema(LastGroup.key), versions[i])

\* the candidates of maximal priority, by their position in the group
Best == {i \in 1..Len(versions) :
           \A j \in 1..Len(versions) : versions[i].priority >= versions[j].priority}

\* C3: when several candidates share the maximal priority, the winner is the
\* one of them that comes first in the group's file order.
C3_TiesGoToFirstSeen ==
  (MultiFileGroupStored /\ Cardinality(Best) >= 2) =>
    \E i \in Best :
       /\ \A j \in Best : i <= j
       /\ Belongs(StoredSchema(LastGroup.key), versions[i])

\* of three candidates the second and the third tie above the first, and the
\* second has won
C3_Witness ==
  /\ MultiFileGroupStored
  /\ Len(versions) = 3
  /\ Best = {2, 3}
  /\ Belongs(StoredSchema(LastGroup.key), versions[2])
  /\ ~Belongs(StoredSchema(LastGroup.key), versions[3])

\* C4: a candidate whose notes carry the wrapper marker never has a greater
\* priority than a candidate of the same group without the marker that has at
\* least one parameter and quality medium or high (all versions below 10).
C4_WrapperNeverOutranks ==
  \A i, j \in 1..Len(versions) :
     ( /\ HasWrapperNote(versions[i].schema.extractionNotes)
       /\ ~HasWrapperNote(versions[j].schema.extractionNotes)
       /\ Len(versions[j].schema.parameters) >= 1
       /\ versions[j].schema.extractionQuality \in {"medium", "high"}
       /\ versionNumOf(versions[i].filePath) < 10
       /\ versionNumOf(versions[j].filePath) < 10 )
     => versions[i].priority <= versions[j].priority

\* C7: once extractAllSchemas is over, averageParametersPerNode is
\* totalParametersExtracted / nodeCount when nodeCount > 0 and 0 when
\* nodeCount is 0, and nothing has been divided by zero.
C7_AverageIsTotalOverCount ==
  pc = "extracted" =>
    /\ db.averageParametersPerNode.den # 0
    /\ db.nodeCount > 0 =>
         db.averageParametersPerNode.num * db.nodeCount
           = db.totalParametersExtracted * db.averageParametersPerNode.den
    /\ db.nodeCount = 0 => db.averageParametersPerNode.num = 0

\* a run that found files, none of which gave a schema
C7_Witness ==
  /\ pc = "extracted"
  /\ nodeFiles # <<>>
  /\ db.nodeCount = 0
  /\ db.averageParametersPerNode = Quot(0, 1)

\* the call is of a readable file that holds a wrapper
OfWrapper(call) ==
  /\ CanRead(fsys, call.filePath)
  /\ ContentOf(fsys, call.filePath).isWrapper

\* the implementation file located for the wrapper of a call, <<>> for none
Located(call) ==
  LET c == ContentOf(fsys, call.filePath)
  IN IF c.defaultVersion # NoVersion /\ c.defaultVersion # 0
     THEN findImplementationFileForVersion(fsys, call.filePath, c.defaultVersion)
     ELSE <<>>

\* no implementation located: nothing is reported as failed, and the schema
\* is the wrapper file's own and carries the wrapper note
FallbackIsMarked(call) ==
  (OfWrapper(call) /\ Located(call) = <<>>) =>
    /\ call.result.issues = <<>>
    /\ ContentOf(fsys, call.filePath).desc = "named" => call.result.ok
    /\ call.result.ok =>
         /\ call.result.schema.sourceFile = call.filePath
         /\ HasWrapperNote(call.result.schema.extractionNotes)

Redirected(call) == OfWrapper(call) /\ Located(call) # <<>> /\ call.result.ok

\* C9 (amended): a wrapper with no locatable implementation yields the
\* wrapper file's own schema, marked by the wrapper note, and no failure; a
\* schema obtained through a redirect carries the wrapper note exactly when
\* the file it was finally read from is itself a wrapper.
C9_WrapperNoteMarksFallback ==
  \A i \in 1..Len(calls) :
     /\ FallbackIsMarked(calls[i])
     /\ Redirected(calls[i]) =>
          ( HasWrapperNote(calls[i].result.schema.extractionNotes)
            <=> ContentOf(fsys, calls[i].result.schema.sourceFile).isWrapper )

\* one wrapper of the group fell back on itself and is marked, another was
\* redirected to an implementation and is not
C9_Witness ==
  /\ \E i \in 1..Len(calls) :
       /\ OfWrapper(calls[i]) /\ Located(calls[i]) = <<>>
       /\ calls[i].result.ok
       /\ HasWrapperNote(calls[i].result.schema.extractionNotes)
  /\ \E i \in 1..Len(calls) :
       /\ Redirected(calls[i])
       /\ calls[i].result.schema.sourceFile # calls[i].filePath
       /\ ~HasWrapperNote(calls[i].result.schema.extractionNotes)

\* C9 as stated: a schema obtained through a successful redirect never
\* carries the wrapper note.
C9_RedirectedNeverMarked ==
  \A i \in 1..Len(calls) :
     /\ FallbackIsMarked(calls[i])
     /\ Redirected(calls[i]) => ~HasWrapperNote(calls[i].result.schema.extractionNotes)

(***************************************************************************)
(* The functions analysed on their own: the input is drawn in the initial  *)
(* state, one step applies the function.                                   *)
(***************************************************************************)
\* the run's variables, for an analysis that does not use them
NoRun ==
  /\ nodeFiles = <<>>
  /\ groups = <<>>
  /\ gi = 1
  /\ db = InitDatabase
  /\ versions = <<>>
  /\ calls = <<>>

Return(value) ==
  /\ pc = "call"
  /\ pc' = "return"
  /\ ret' = value
  /\ UNCHANGED <<fsys, nodeFiles, groups, gi, db, versions, calls, arg>>

(***************************************************************************)
(* calculateVersionPriority on its own                                     *)
(***************************************************************************)
\* the most parameters of a schema given to calculateVersionPriority
MaxPriorityParams == 2

PriorityDirs ==
  { << <<"Foo">> >>, << <<"Foo">>, <<"V", "0">> >>, << <<"Foo">>, <<"V", "1">> >>,
    << <<"Foo">>, <<"v", "2">> >>, << <<"Foo">>, <<"V", "9">> >>,
    << <<"Foo">>, <<"V", "1", "2">> >>, << <<"V", "3">>, <<"Foo">> >> }

PriorityStems ==
  { <<"Foo">>, <<"index">>, <<"Foo", "V", "0">>, <<"Foo", "V", "1">>, <<"Foo", "v", "2">>,
    <<"Foo", "V", "0", "3">>, <<"Foo", "V", "1", "0">> }

PrioritySchemas ==
  { [ parameters |-> [i \in 1..n |-> parsePropertyObject(LitDescribed(i))[1]],
      extractionQuality |-> q,
      extractionNotes |-> IF w THEN <<Note(WrapperNoteKind, NoVersion, <<>>)>> ELSE <<>> ] :
    n \in 0..MaxPriorityParams, q \in {"high", "medium", "low"}, w \in BOOLEAN }

InitPriority ==
  /\ pc = "call"
  /\ arg \in { [filePath |-> NodeFile(d, s), schema |-> sc] :
               d \in PriorityDirs, s \in PriorityStems, sc \in PrioritySchemas }
  /\ ret = None
  /\ fsys = <<>>
  /\ NoRun

CallPriority == Return(calculateVersionPriority(arg.filePath, arg.schema))

SpecPriority == InitPriority /\ [][CallPriority]_vars

(***************************************************************************)
(* determineExtractionQuality on its own                                   *)
(***************************************************************************)
\* the most parameters of a list given to determineExtractionQuality
MaxQualityParams == 6

QualityParams ==
  { [type |-> Str(1), description |-> Str(1)], [type |-> Str(1), description |-> Undef],
    [type |-> Str(1), description |-> Str(0)], [type |-> Str(0), description |-> Str(1)] }

InitQuality ==
  /\ pc = "call"
  /\ \E n \in 0..MaxQualityParams : arg \in [1..n -> QualityParams]
  /\ ret = None
  /\ fsys = <<>>
  /\ NoRun

CallQuality == Return(determineExtractionQuality(arg))

SpecQuality == InitQuality /\ [][CallQuality]_vars

(***************************************************************************)
(* parsePropertyObject and expandConditionalParameters on their own: the   *)
(* input is the object literals of a parameter array                       *)
(***************************************************************************)
\* the most object literals of a parameter array given to the expansion
MaxLiterals == 2

ExpandLiterals ==
  { LitDescribed(1),
    LitNoType(2),
    \* show: { operation: ['insert', 'update'] }
    Lit(Str(3), Str(1), Undef, <<ShowEntry(1, TRUE, <<1, 2>>)>>, <<>>),
    \* show: { operation: ['insert', 'update'], resource: ['row'] }
    Lit(Str(4), Str(1), Undef, <<ShowEntry(1, TRUE, <<1, 2>>), ShowEntry(2, TRUE, <<3>>)>>, <<>>),
    \* show: { operation: 'insert', resource: ['row', 'table'] }
    Lit(Str(5), Str(1), Undef, <<ShowEntry(1, FALSE, <<1>>), ShowEntry(2, TRUE, <<3, 4>>)>>, <<>>),
    \* show: { operation: [] }
    Lit(Str(6), Str(1), Undef, <<ShowEntry(1, TRUE, <<>>)>>, <<>>),
    \* hide: { operation: ['insert', 'update'] }
    Lit(Str(7), Str(1), Undef, <<>>, <<ShowEntry(1, TRUE, <<1, 2>>)>>),
    \* show: { resource: ['row'] }, hide: { operation: ['insert'] }
    Lit(Str(3), Str(2), Undef, <<ShowEntry(2, TRUE, <<3>>)>>, <<ShowEntry(1, TRUE, <<1>>)>>) }

InitExpand ==
  /\ pc = "call"
  /\ \E n \in 0..MaxLiterals : arg \in [1..n -> ExpandLiterals]
  /\ ret = None
  /\ fsys = <<>>
  /\ NoRun

CallExpand ==
  Return([ parameters |-> parseElements(arg),
           expanded |-> expandConditionalParameters(parseElements(arg)) ])

SpecExpand == InitExpand /\ [][CallExpand]_vars

(***************************************************************************)
(* findImplementationFileForVersion on its own: a wrapper <Base>/<Base>    *)
(* .node.ts next to the implementation files V<n>/<Base>V<n>.node.ts       *)
(***************************************************************************)
\* the greatest n of an implementation directory V<n>
MaxImplVersion == 4

WrapperBases == { <<"HttpRequest">>, <<"GoogleSheets">>, <<"Foo">> }

\* declared default versions, in tenths: 1, 2.1, 3, 4, 4.2
WrapperVersions == {10, 21, 30, 40, 42}

\* <Base>/V<n>/<Base>V<n>.node.ts
ImplFile(base, n) ==
  NodeFile(<<base, <<"V">> \o ToDigits(n)>>, base \o <<"V">> \o ToDigits(n))

WrapperFile(base) == NodeFile(<<base>>, base)

\* the wrapper and the implementations numbered in S, the directories listed
\* in ascending or in descending order
WrapperTree(base, S, reversed) ==
  LET idx == SelectSeqIdx([n \in 1..MaxImplVersion |-> n \in S], 1, MaxImplVersion)
      fwd == [j \in 1..Len(idx) |-> File(ImplFile(base, idx[j]), NodeContents_Plain)]
  IN <<File(WrapperFile(base), NodeContents_Wrapper)>> \o (IF reversed THEN Reverse(fwd) ELSE fwd)

InitWrapper ==
  /\ pc = "call"
  /\ \E base \in WrapperBases, S \in SUBSET (1..MaxImplVersion), reversed \in BOOLEAN,
        version \in WrapperVersions :
       /\ fsys = WrapperTree(base, S, reversed)
       /\ arg = [wrapperFilePath |-> WrapperFile(base), version |-> version]
  /\ ret = None
  /\ NoRun

CallFindImplementation ==
  Return(findImplementationFileForVersion(fsys, arg.wrapperFilePath, arg.version))

SpecWrapper == InitWrapper /\ [][CallFindImplementation]_vars

(***************************************************************************)
(* saveResults, lines 2116-2143, on its own: the database is one that a    *)
(* run may leave, the two documents written are the result.  The directory *)
(* _ignored lies outside the trees of the runs: whether it exists is       *)
(* settled when saveResults looks (line 2119).                             *)
(***************************************************************************)
\* JSON.stringify of an object: a property whose value is undefined is left out
stringifyObject(o) == [f \in {g \in DOMAIN o : o[g] # Undef} |-> o[f]]

stringifySchema(schema) ==
  [schema EXCEPT !.parameters = [i \in 1..Len(schema.parameters) |->
                                   stringifyObject(schema.parameters[i])]]

\* JSON.stringify(database, null, 2)
stringifyDatabase(d) ==
  [d EXCEPT !.nodes = [i \in 1..Len(d.nodes) |->
                         [key |-> d.nodes[i].key, schema |-> stringifySchema(d.nodes[i].schema)]]]

\* lines 2128-2132: the entries of quality high or medium
highQualityNodes(nodes) ==
  SelectSeq(nodes, LAMBDA e : e.schema.extractionQuality = "high"
                              \/ e.schema.extractionQuality = "medium")

\* saveResults with nodeCount taken over from the database (line 2138 left out)
saveResultsCountKept(d) ==
  [ full |-> stringifyDatabase(d),
    filtered |-> stringifyDatabase([d EXCEPT !.nodes = highQualityNodes(d.nodes)]) ]

\* lines 2124-2139: the two documents written
saveResults(d) ==
  [ full |-> stringifyDatabase(d),
    filtered |-> stringifyDatabase([d EXCEPT !.nodes = highQualityNodes(d.nodes),
                                             !.nodeCount = Len(highQualityNodes(d.nodes))]) ]

\* the most nodes of a database given to saveResults
MaxSavedNodes == 3

\* what the files of the nodes of such a database hold: quality medium,
\* high and low
SavedContents ==
  << NodeContents_Plain,
     Content(TRUE, FALSE, NoVersion, "named", [i \in 1..5 |-> LitDescribed(i)]),
     Content(TRUE, FALSE, NoVersion, "named", <<LitPlain(1)>>) >>

SavedFile(n) == NodeFile(<< <<"Node">> \o ToDigits(n) >>, <<"Node">> \o ToDigits(n))

RECURSIVE DatabaseOf(_)
\* the database after the single-file groups Node1, Node2, ..., file n
\* holding SavedContents[qs[n]]
DatabaseOf(qs) ==
  IF qs = <<>> THEN InitDatabase
  ELSE storeParsed(DatabaseOf(SubSeq(qs, 1, Len(qs) - 1)), SavedFile(Len(qs)),
                   extractNodeSchemaAST(<<>>, SavedContents[qs[Len(qs)]], SavedFile(Len(qs))))

InitSave ==
  /\ pc = "call"
  /\ \E n \in 0..MaxSavedNodes : \E qs \in [1..n -> 1..Len(SavedContents)] :
       db = generateStats(DatabaseOf(qs))
  /\ arg = None
  /\ ret = None
  /\ fsys = <<>>
  /\ nodeFiles = <<>>
  /\ groups = <<>>
  /\ gi = 1
  /\ versions = <<>>
  /\ calls = <<>>

\* _ignored exists: both documents are written
SaveResults == Return(saveResults(db))

\* _ignored does not exist: saveResults throws (line 2120), nothing is written
SaveResultsThrows ==
  /\ pc = "call"
  /\ pc' = "failed"
  /\ UNCHANGED <<fsys, nodeFiles, groups, gi, db, versions, calls, arg, ret>>

NextSave == SaveResults \/ SaveResultsThrows

SpecSave == InitSave /\ [][NextSave]_vars

(***************************************************************************)
(* parseNodeFile on its own: one node file and the files beside it that    *)
(* the property resolvers look for.                                        *)
(***************************************************************************)
\* the most spread imports of the node file
MaxImports == 2

\* a relative module specifier: `up` leading '../', then the segments
Import(up, segs) == [rel |-> TRUE, up |-> up, segs |-> segs]
\* './a'
ImportA == Import(0, << <<"a">> >>)
\* './b'
ImportB == Import(0, << <<"b">> >>)
\* 'n8n-workflow'
ImportPackage == [rel |-> FALSE, up |-> 0, segs |-> << <<"n8n-workflow">> >>]

\* what findSpreadImports may return for the node file
SpreadLists == UNION {[1..n -> {ImportA, ImportB, ImportPackage}] : n \in 0..MaxImports}

ParsePlainRoot == NodeFile(<< <<"Foo">> >>, <<"Foo">>)
ParseV2Root == NodeFile(<< <<"Foo">>, <<"V", "2">> >>, <<"Foo", "V", "2">>)

\* what the node file may hold
ParseRootContents ==
  { [Content(TRUE, FALSE, NoVersion, "named", <<LitDescribed(1)>>) EXCEPT !.spreads = s] :
      s \in SpreadLists }
  \cup { Content(FALSE, FALSE, NoVersion, "none", <<>>),
         Content(TRUE, FALSE, NoVersion, "none", <<>>),
         NodeContents_Wrapper }

SatelliteStates == {"absent", "readable", "unreadable"}

\* a file beside the node file: missing, holding c, or one that cannot be read
Satellite(path, state, c) ==
  IF state = "absent" THEN <<>>
  ELSE <<File(path, [c EXCEPT !.readable = (state = "readable")])>>

Exports(props) == Content(TRUE, FALSE, NoVersion, "none", props)

\* the node file root holding c, a.ts and b.ts beside it, and under actions/
\* x.resource.ts (which imports './y.operation'), y.operation.ts (which also
\* exports a constant array of properties) and
\* versionDescription.ts (which spreads what it imports from '../a')
ParseTree(root, c, sa, sb, sx, sy, sv) ==
  LET dir == dirname(root)
      actions == dir \o << <<"actions">> >>
  IN <<File(root, c)>>
     \o Satellite(dir \o << <<"a", ".ts">> >>, sa, Exports(<<LitPlain(2), LitConditional(3)>>))
     \o Satellite(dir \o << <<"b", ".ts">> >>, sb, Exports(<<LitDescribed(4)>>))
     \o Satellite(actions \o << <<"x", ".resource", ".ts">> >>, sx,
                  [Exports(<<LitPlain(5)>>)
                     EXCEPT !.opImports = <<Import(0, << <<"y", ".operation">> >>)>>])
     \o Satellite(actions \o << <<"y", ".operation", ".ts">> >>, sy,
                  [Exports(<<LitPlain(6)>>) EXCEPT !.constProps = << <<LitPlain(2)>> >>])
     \o Satellite(actions \o << <<"versionDescription", ".ts">> >>, sv,
                  [Exports(<<>>) EXCEPT !.spreads = <<Import(1, << <<"a">> >>)>>])

InitParse ==
  /\ pc = "call"
  /\ \E root \in {ParsePlainRoot, ParseV2Root}, c \in ParseRootContents :
       \E sa \in SatelliteStates, sb \in SatelliteStates :
         \E sx \in SatelliteStates, sy \in SatelliteStates, sv \in SatelliteStates :
           /\ fsys = ParseTree(root, c, sa, sb, sx, sy, sv)
           /\ arg = root
  /\ ret = None
  /\ NoRun

CallParseNodeFile == Return(parseNodeFile(fsys, arg))

SpecParse == InitParse /\ [][CallParseNodeFile]_vars

(***************************************************************************)
(* main, lines 2147-2158: extractAllSchemas, then saveResults, any error   *)
(* of either ending the process with status 1.  The environment of the     *)
(* process is arg: whether glob fails, whether grouping throws, whether    *)
(* _ignored exists, and how many calls of writeFileSync succeed.  ret is   *)
(* what has been written.                                                  *)
(***************************************************************************)
\* the same, the filtered document written first
writesOfFilteredFirst(d) ==
  << [path |-> "node-schemas-ast-rag-optimized.json", doc |-> saveResults(d).filtered],
     [path |-> "node-schemas-ast.json", doc |-> saveResults(d).full] >>

\* lines 2124-2139: the calls of writeFileSync, in order
writesOf(d) ==
  << [path |-> "node-schemas-ast.json", doc |-> saveResults(d).full],
     [path |-> "node-schemas-ast-rag-optimized.json", doc |-> saveResults(d).filtered] >>

Environments ==
  [globFails : BOOLEAN, groupingThrows : BOOLEAN, ignoredDirExists : BOOLEAN,
   writable : {0, 1, 2}]

InitMain ==
  /\ pc = "main"
  /\ arg \in Environments
  /\ \E n \in 0..MaxSavedNodes : \E qs \in [1..n -> 1..Len(SavedContents)] :
       db = generateStats(DatabaseOf(qs))
  /\ ret = <<>>
  /\ fsys = <<>>
  /\ nodeFiles = <<>>
  /\ groups = <<>>
  /\ gi = 1
  /\ versions = <<>>
  /\ calls = <<>>

\* line 2151: extractAllSchemas returns, or glob (line 1104) or the grouping
\* (line 1083) throws and the catch of lines 2154-2157 exits
ExtractAllSchemas ==
  /\ pc = "main"
  /\ pc' = IF arg.globFails \/ arg.groupingThrows THEN "exit1" ELSE "extracted"
  /\ UNCHANGED <<fsys, nodeFiles, groups, gi, db, versions, calls, arg, ret>>

\* lines 2118-2121: the check of the output directory
EnsureIgnoredDir ==
  /\ pc = "extracted"
  /\ pc' = IF arg.ignoredDirExists THEN "write" ELSE "exit1"
  /\ UNCHANGED <<fsys, nodeFiles, groups, gi, db, versions, calls, arg, ret>>

\* lines 2125 and 2135: the next writeFileSync; when it throws, the catch
\* of lines 2154-2157 exits; after the second, main returns
WriteFile ==
  /\ pc = "write"
  /\ IF arg.writable > Len(ret)
     THEN /\ ret' = Append(ret, writesOf(db)[Len(ret) + 1])
          /\ pc' = IF Len(ret) + 1 = Len(writesOf(db)) THEN "exit0" ELSE "write"
     ELSE /\ ret' = ret
          /\ pc' = "exit1"
  /\ UNCHANGED <<fsys, nodeFiles, groups, gi, db, versions, calls, arg>>

NextMain == ExtractAllSchemas \/ EnsureIgnoredDir \/ WriteFile

SpecMain == InitMain /\ [][NextMain]_vars

(***************************************************************************)
(* resolveImportPath on its own: a specifier of Foo/Foo.node.ts and the    *)
(* files beside it that the specifier may name.                            *)
(***************************************************************************)
\* './x' and './x.json'
ResolveImports == {Import(0, << <<"x">> >>), Import(0, << <<"x", ".json">> >>)}

\* path.resolve(currentDir, importPath) for a specifier of ParsePlainRoot
ResolvedOf(imp) == resolveRelative(dirname(ParsePlainRoot), imp)

\* the paths a specifier may stand for, the literal one first
ResolveCandidates(imp) ==
  <<ResolvedOf(imp)>>
  \o [i \in 1..3 |-> WithExt(ResolvedOf(imp), Extensions[i])]
  \o [i \in 1..3 |-> ResolvedOf(imp) \o << <<"index", Extensions[i]>> >>]

\* the tree that holds the node file and the candidates numbered in S
ResolveTree(imp, S) ==
  <<File(ParsePlainRoot, NodeContents_Plain)>>
  \o [j \in 1..Cardinality(S) |->
        File(ResolveCandidates(imp)[
               SelectSeqIdx([i \in 1..7 |-> i \in S], 1, 7)[j]],
             Exports(<<>>))]

InitResolve ==
  /\ pc = "call"
  /\ \E imp \in ResolveImports :
       \E S \in {T \in SUBSET (1..7) : 1 \in T => T \cap (5..7) = {}} :
         /\ arg = [imp |-> imp, S |-> S]
         /\ fsys = ResolveTree(imp, S)
  /\ ret = None
  /\ NoRun

CallResolveImportPath == Return(resolveImportPath(fsys, arg.imp, ParsePlainRoot))

SpecResolve == InitResolve /\ [][CallResolveImportPath]_vars

(***************************************************************************)
(* findImplementationFileForVersion over the directory of the wrapper      *)
(* Foo/Foo.node.ts, defaultVersion 2: what the pattern loop and the scan   *)
(* may come across.                                                        *)
(***************************************************************************)
LocateDir == NodesRoot \o << <<"Foo">> >>

\* the entries that may lie under Foo/; the first five are the paths of the
\* pattern loop for version 2 in the order it tests them
LocateEntries ==
  << LocateDir \o << <<"V", "2">>, <<"Foo", "V", "2">> \o NodeExt >>,
     LocateDir \o << <<"v", "2">>, <<"Foo", "V", "2">> \o NodeExt >>,
     LocateDir \o << <<"v", "2">>, <<"Foo", "v", "2">> \o NodeExt >>,
     LocateDir \o << <<"Foo", "V", "2">>, <<"Foo", "Foo", "V", "2">> \o NodeExt >>,
     LocateDir \o << <<"foo", "v", "2">>, <<"Foo", "Foo", "V", "2">> \o NodeExt >>,
     LocateDir \o << <<"V", "1">>, <<"Foo", "V", "1">> \o NodeExt >>,
     LocateDir \o << <<"V", "3">>, <<"Other">> \o NodeExt >>,
     LocateDir \o << <<"v", "3">>, <<"My", "Foo">> \o NodeExt >>,
     LocateDir \o << <<"V", "0">> >> >>

\* the wrapper and the entries numbered in S, listed in the order of
\* LocateEntries or in the reverse order
LocateTree(S, reversed) ==
  LET idx == SelectSeqIdx([n \in 1..Len(LocateEntries) |-> n \in S], 1, Len(LocateEntries))
      fwd == [j \in 1..Len(idx) |-> File(LocateEntries[idx[j]], NodeContents_Plain)]
  IN <<File(WrapperFile(<<"Foo">>), NodeContents_Wrapper)>>
     \o (IF reversed THEN Reverse(fwd) ELSE fwd)

InitLocate ==
  /\ pc = "call"
  /\ \E S \in SUBSET (1..Len(LocateEntries)), reversed \in BOOLEAN :
       fsys = LocateTree(S, reversed)
  /\ arg = [wrapperFilePath |-> WrapperFile(<<"Foo">>),
            version |-> NodeContents_Wrapper.defaultVersion]
  /\ ret = None
  /\ NoRun

SpecLocate == InitLocate /\ [][CallFindImplementation]_vars

(***************************************************************************)
(* groupNodeFilesByBaseName on its own                                     *)
(***************************************************************************)
\* the most files given to groupNodeFilesByBaseName
MaxGroupFiles == 3

\* the node files it may be given
GroupPaths ==
  { NodeFile(<< <<"Foo">> >>, <<"Foo">>),
    NodeFile(<< <<"Foo">>, <<"V", "2">> >>, <<"Foo", "V", "2">>),
    NodeFile(<< <<"Foo">> >>, <<"index">>),
    NodeFile(<< <<"foo">> >>, <<"foo">>),
    NodeFile(<< <<"Bar">> >>, <<"Bar", "Test">>),
    NodeFile(<< <<"Bar">>, <<"v", "1", "0">> >>, <<"Bar", "v", "1", "0">>),
    NodeFile(<< <<"Bar">>, <<"V", "2">> >>, <<"index">>),
    NodeFile(<< <<"Constructor">> >>, <<"Constructor">>) }

InitGroup ==
  /\ pc = "call"
  /\ \E n \in 1..MaxGroupFiles :
       arg \in {s \in [1..n -> GroupPaths] : \A i, k \in 1..n : s[i] = s[k] => i = k}
  /\ ret = None
  /\ fsys = <<>>
  /\ NoRun

\* line 1083: the groups are returned
CallGroup ==
  /\ ~groupingThrows(arg)
  /\ Return(groupNodeFilesByBaseName(arg))

\* line 1083: the TypeError leaves extractAllSchemas
CallGroupThrows ==
  /\ pc = "call"
  /\ groupingThrows(arg)
  /\ pc' = "failed"
  /\ UNCHANGED <<fsys, nodeFiles, groups, gi, db, versions, calls, arg, ret>>

NextGroup == CallGroup \/ CallGroupThrows

SpecGroup == InitGroup /\ [][NextGroup]_vars

(***************************************************************************)
(* parseNodeFile step by step: each call of parseNodeFile on the           *)
(* implementation file of a wrapper (line 1286) is a step.  arg.filePath   *)
(* is the file the first call was given, arg.current the file of the call  *)
(* that is running, gi the number of calls so far.  The files beside the   *)
(* node file import each other.                                            *)
(***************************************************************************)
\* Foo/Foo.node.ts, Foo/V2/FooV2.node.ts, Foo/V2/V2/FooV2V2.node.ts
RedirectFiles ==
  << NodeFile(<< <<"Foo">> >>, <<"Foo">>),
     NodeFile(<< <<"Foo">>, <<"V", "2">> >>, <<"Foo", "V", "2">>),
     NodeFile(<< <<"Foo">>, <<"V", "2">>, <<"V", "2">> >>, <<"Foo", "V", "2", "V", "2">>) >>

\* what such a file may hold: a wrapper of default version 2 or 3, a node
\* that spreads what it imports from './a', a file that cannot be read
RedirectContents ==
  { NodeContents_Wrapper,
    Content(TRUE, TRUE, 30, "named", <<>>),
    [NodeContents_Plain EXCEPT !.spreads = <<ImportA>>],
    Content(FALSE, FALSE, NoVersion, "none", <<>>) }

\* a.ts spreads what it imports from './b', and b.ts what it imports from './a'
CyclicImports(dir) ==
  << File(dir \o << <<"a", ".ts">> >>, [Exports(<<LitPlain(3)>>) EXCEPT !.spreads = <<ImportB>>]),
     File(dir \o << <<"b", ".ts">> >>, [Exports(<<LitPlain(4)>>) EXCEPT !.spreads = <<ImportA>>]) >>

InitRedirect ==
  /\ pc = "call"
  /\ \E n \in 1..Len(RedirectFiles) : \E cs \in [1..n -> RedirectContents] :
       \E S \in SUBSET (1..n) :
         fsys = Flatten([i \in 1..n |->
                   <<File(RedirectFiles[i], cs[i])>>
                   \o (IF i \in S THEN CyclicImports(dirname(RedirectFiles[i])) ELSE <<>>)])
  /\ arg = [filePath |-> RedirectFiles[1], current |-> RedirectFiles[1]]
  /\ ret = None
  /\ NoRun

\* lines 1277-1286: the file is a wrapper whose implementation file is found;
\* parseNodeFile is called on that file
Redirect ==
  /\ pc = "call"
  /\ CanRead(fsys, arg.current)
  /\ implementationFileOf(fsys, arg.current, ContentOf(fsys, arg.current)) # <<>>
  /\ arg' = [arg EXCEPT !.current =
               implementationFileOf(fsys, arg.current, ContentOf(fsys, arg.current))]
  /\ gi' = gi + 1
  /\ UNCHANGED <<pc, fsys, nodeFiles, groups, db, versions, calls, ret>>

\* lines 1293-1306: the file is parsed itself, or reading it throws; every
\* pending call returns what this one returns
ParseItself ==
  /\ pc = "call"
  /\ \/ ~CanRead(fsys, arg.current)
     \/ implementationFileOf(fsys, arg.current, ContentOf(fsys, arg.current)) = <<>>
  /\ ret' = IF CanRead(fsys, arg.current)
            THEN parseResolved(fsys, arg.current, <<>>)
            ELSE Parsed(FALSE, NullSchema, <<Note("Error processing", 0, arg.current)>>, 0)
  /\ pc' = "return"
  /\ UNCHANGED <<fsys, nodeFiles, groups, gi, db, versions, calls, arg>>

NextRedirect == Redirect \/ ParseItself

SpecRedirect == InitRedirect /\ [][NextRedirect]_vars

\* what a step of NextRedirect does to pc and gi: a call is made or the
\* running call returns; NextRedirect can take a step exactly when
\* AdvanceParse can
AdvanceParse ==
  /\ pc = "call"
  /\ \/ pc' = "return" /\ gi' = gi
     \/ pc' = pc /\ gi' = gi + 1

\* parseNodeFile is not interrupted: a call that can go on does
FairSpecRedirect == SpecRedirect /\ WF_<<pc, gi>>(AdvanceParse)

(***************************************************************************)
(* Properties of the functions                                             *)
(***************************************************************************)
\* the explicit version number of a path: the digits after V or v at the end
\* of the file name or as the name of the file's directory, the greater of the
\* two when both are there; found tells whether there is one
ExplicitVersion(filePath) ==
  LET inFile == MatchVerSuffix(basenameNode(filePath))
      inDir == MatchVerWhole(dirBasename(filePath))
  IN [ found |-> inFile # <<>> \/ inDir # <<>>,
       number |-> Max(IF inFile # <<>> THEN parseInt(inFile) ELSE 0,
                      IF inDir # <<>> THEN parseInt(inDir) ELSE 0) ]

\* the score as the formula gives it
FormulaScore(filePath, schema) ==
  (IF HasWrapperNote(schema.extractionNotes) THEN -100 ELSE 0)
  + (IF ExplicitVersion(filePath).found THEN ExplicitVersion(filePath).number * 50 ELSE 25)
  + Len(schema.parameters) * 5
  + (CASE schema.extractionQuality = "high" -> 50
       [] schema.extractionQuality = "medium" -> 25
       [] schema.extractionQuality = "low" -> 0)
  + (IF \E i \in 1..Len(filePath) : filePath[i] \in {<<x, d>> : x \in {"V", "v"},
                                        d \in {"2", "3", "4", "5", "6", "7", "8", "9"}}
     THEN 30 ELSE 0)

\* C5: calculateVersionPriority is -100 for a wrapper fallback, plus 50 times
\* the explicit version number when the path carries one (0 included) and 25
\* when it carries none, plus 5 per parameter, plus 50/25/0 for quality
\* high/medium/low, plus 30 for a directory V2..V9 in the path.
C5_PriorityFollowsFormula ==
  pc = "return" => ret = FormulaScore(arg.filePath, arg.schema)

\* the parameters of the list that have a description
DescribedIn(ps) == {i \in 1..Len(ps) : ps[i].description \notin {Undef, Str(0)}}

AllTyped(ps) == \A i \in 1..Len(ps) : NonEmpty(ps[i].type)

ListPairs(parameters) ==
  { <<i, e, j>> \in (1..Len(parameters)) \X (1..3) \X (1..3) :
      /\ e <= Len(parameters[i].displayOptions.show)
      /\ parameters[i].displayOptions.show[e].isList
      /\ j <= Len(parameters[i].displayOptions.show[e].vals) }

\* C10: the expansion keeps the parameters and adds exactly one derived
\* parameter for every (condition key, accepted value) pair of a show entry
\* whose values form a list, none for a non-list value or a hide mapping;
\* every derived parameter keeps the original's name as parameterName.
C10_OneDerivedPerListedValue ==
  pc = "return" =>
    LET base == ret.parameters
        derived == SubSeq(ret.expanded, Len(base) + 1, Len(ret.expanded))
    IN /\ SubSeq(ret.expanded, 1, Len(base)) = base
       /\ Len(derived) = Cardinality(ListPairs(base))
       /\ \A t \in ListPairs(base) :
            Cardinality({k \in 1..Len(derived) :
               /\ derived[k].name = [base |-> base[t[1]].name.base,
                                     when |-> << <<base[t[1]].displayOptions.show[t[2]].key,
                                                   base[t[1]].displayOptions.show[t[2]].vals[t[3]]>> >>]
               /\ derived[k].workflowJsonStructure.parameterName = base[t[1]].name
               /\ derived[k].workflowJsonStructure.conditionalContext
                    = <<base[t[1]].displayOptions.show[t[2]].key,
                        base[t[1]].displayOptions.show[t[2]].vals[t[3]]>>}) >= 1

\* a parameter whose show mapping lists two values under one key and one
\* under another is expanded into three, another whose show mapping holds a
\* non-list value and a list of two into two
C10_Witness ==
  /\ pc = "return"
  /\ Len(ret.parameters) = 2
  /\ Len(ret.parameters[1].displayOptions.show) = 2
  /\ \A e \in 1..2 : ret.parameters[1].displayOptions.show[e].isList
  /\ Len(ret.parameters[2].displayOptions.show) = 2
  /\ ~ret.parameters[2].displayOptions.show[1].isList
  /\ Len(ret.expanded) = 2 + 3 + 2

\* a rule of the override table applies to the wrapper
HasRule(base, version) ==
  \E i \in 1..Len(OverrideRules) :
     OverrideRules[i].base = base /\ version >= OverrideRules[i].from

\* the implementation version the table names for the wrapper
RuleTarget(base, version) ==
  OverrideRules[CHOOSE i \in 1..Len(OverrideRules) :
                  OverrideRules[i].base = base /\ version >= OverrideRules[i].from].use

WrapperBase == basenameNode(arg.wrapperFilePath)

C11_ExpansionAppends ==
  pc = "return" =>
    /\ Len(ret.expanded) >= Len(ret.parameters)
    /\ \A i \in 1..Len(ret.parameters) : ret.expanded[i] = ret.parameters[i]
    /\ \A k \in (Len(ret.parameters) + 1)..Len(ret.expanded) :
          /\ ret.expanded[k].name.when # <<>>
          /\ \E i \in 1..Len(ret.parameters) :
                ret.expanded[k].workflowJsonStructure.parameterName = ret.parameters[i].name

\* two parameters, the first of them conditional: its variants come behind
\* the second
C11_Witness ==
  /\ pc = "return"
  /\ Len(ret.parameters) = 2
  /\ ret.parameters[1].displayOptions.show # <<>>
  /\ ret.parameters[1].displayOptions.show[1].isList
  /\ ret.parameters[1].displayOptions.show[1].vals # <<>>
  /\ ret.expanded[2] = ret.parameters[2]
  /\ Len(ret.expanded) > 2
  /\ ret.expanded[3].workflowJsonStructure.parameterName = ret.parameters[1].name

\* the entries of a nodes mapping
Entries(nodes) == {nodes[i] : i \in 1..Len(nodes)}

Root == ContentOf(fsys, arg)

ActionsDir == dirname(arg) \o << <<"actions">> >>

\* the file a specifier of the node file names, beside the node file
TargetOf(imp) == dirname(arg) \o << imp.segs[1] \o <<".ts">> >>

Unresolved(imp) == ~imp.rel \/ ~IsFile(fsys, TargetOf(imp))

\* the parameters the file named by imp declares, none if there is no such file
Contribution(imp) ==
  IF ~Unresolved(imp) /\ CanRead(fsys, TargetOf(imp))
  THEN parseElements(ContentOf(fsys, TargetOf(imp)).props)
  ELSE <<>>

\* the path of the node file has a versioned directory or a versioned file
\* name, and there is an actions directory beside the file
Layered ==
  /\ \/ \E i \in 1..Len(arg) : MatchV2to9(arg[i]) \/ MatchVHigh(arg[i])
     \/ MatchSuffixV2to9(basenameNode(arg)) \/ MatchSuffixVHigh(basenameNode(arg))
  /\ IsDir(fsys, ActionsDir)

\* the spread imports of the node file are the ones resolved
SpreadsTried == CanRead(fsys, arg) /\ ~Layered

UnresolvedNotes(notes) == SelectSeq(notes, LAMBDA n : n.k = "Could not resolve import")

UnresolvedSpreads(spreads) == SelectSeq(spreads, Unresolved)

\* C13: a spread import that names no existing file raises nothing and
\* contributes no parameter; one note names it, and the other imports of the
\* file are resolved all the same: the parameters are the direct ones and
\* those of every import that names a file, in order.
C13_UnresolvedImportIsSkipped ==
  pc = "return" /\ SpreadsTried =>
    /\ ret.ok
    /\ ret.issues = <<>>
    /\ ret.schema.parameters
         = expandConditionalParameters(
             parseElements(Root.props)
             \o Flatten([i \in 1..Len(Root.spreads) |-> Contribution(Root.spreads[i])]))
    /\ UnresolvedNotes(ret.schema.extractionNotes)
         = [i \in 1..Len(UnresolvedSpreads(Root.spreads)) |->
              Note("Could not resolve import", 0, UnresolvedSpreads(Root.spreads)[i].segs)]

C13_Witness ==
  /\ pc = "return"
  /\ arg = ParsePlainRoot
  /\ Root.readable
  /\ Root.spreads = <<ImportA, ImportB>>
  /\ Unresolved(ImportA)
  /\ CanRead(fsys, TargetOf(ImportB))
  /\ Len(ret.schema.parameters) = 2
  /\ Len(UnresolvedNotes(ret.schema.extractionNotes)) = 1


\* the node file is a wrapper whose implementation file was not found
WrapperMiss ==
  /\ CanRead(fsys, arg)
  /\ Root.isWrapper
  /\ implementationFileOf(fsys, arg, Root) = <<>>

ImportMiss == SpreadsTried /\ UnresolvedSpreads(Root.spreads) # <<>>

\* C14: every resolution miss, an import that names no file or a wrapper
\* whose implementation is not found, leaves a note on the schema and an
\* entry in knownIssues.
C14_MissIsNotedAndIssued ==
  pc = "return" =>
    /\ ImportMiss =>
         /\ UnresolvedNotes(ret.schema.extractionNotes) # <<>>
         /\ ret.issues # <<>>
    /\ WrapperMiss =>
         /\ HasWrapperNote(ret.schema.extractionNotes)
         /\ ret.issues # <<>>


\* parseNodeFile reads the file at p: the node file itself, a file one of its
\* spread imports names, or a file of its actions directory
Touched(p) ==
  \/ p = arg
  \/ /\ SpreadsTried
     /\ \E i \in 1..Len(Root.spreads) :
          ~Unresolved(Root.spreads[i]) /\ TargetOf(Root.spreads[i]) = p
  \/ /\ CanRead(fsys, arg)
     /\ Layered
     /\ Len(p) > Len(ActionsDir)
     /\ SubSeq(p, 1, Len(ActionsDir)) = ActionsDir

\* C15: a file that cannot be read, the node file or a resource, operation,
\* versionDescription or imported file, does not abort the parse of the node
\* file and is recorded in knownIssues with its path.
C15_ReadFailureIsIssued ==
  pc = "return" =>
    /\ CanRead(fsys, arg) => ret.ok
    /\ \A i \in 1..Len(fsys) :
         Touched(fsys[i].path) /\ ~fsys[i].c.readable =>
           \E k \in 1..Len(ret.issues) : ret.issues[k].p = fsys[i].path


\* nothing is recognised in the file: no description, no properties
NothingRecognised(c) ==
  /\ c.readable
  /\ ~c.isWrapper
  /\ c.desc = "none"
  /\ c.props = <<>>
  /\ c.constProps = <<>>
  /\ c.spreads = <<>>

\* C16: a candidate file in which neither a description nor a property
\* declaration is recognised yields no schema and is not stored in
\* database.nodes.
C16_NothingRecognisedYieldsNoSchema ==
  \A i \in 1..Len(calls) :
    NothingRecognised(ContentOf(fsys, calls[i].filePath)) =>
      /\ ~calls[i].result.ok
      /\ \A k \in 1..Len(db.nodes) : db.nodes[k].schema.sourceFile # calls[i].filePath


\* the step is one iteration of the loop over the groups
GroupProcessed == gi' = gi + 1

\* C17: when no candidate of a group yields a schema, processing the group
\* adds no key to database.nodes and leaves nodeCount and the three quality
\* counters as they were.
C17_NoSchemaNoEntry ==
  [][ GroupProcessed /\ (\A i \in 1..Len(calls') : ~calls'[i].result.ok) =>
        /\ db'.nodes = db.nodes
        /\ db'.nodeCount = db.nodeCount
        /\ db'.highQuality = db.highQuality
        /\ db'.mediumQuality = db.mediumQuality
        /\ db'.lowQuality = db.lowQuality ]_vars

\* a group of several files, none yielding a schema, was processed after a
\* group that was stored
C17_Witness ==
  /\ gi = 3
  /\ Len(calls) >= 2
  /\ \A i \in 1..Len(calls) : ~calls[i].result.ok
  /\ Len(db.nodes) = 1
  /\ db.nodeCount = 1


\* parseNodeFile of the file at p throws inside its try: the file, or the
\* implementation file a wrapper redirects to, cannot be read
Throws(p) ==
  \/ ~CanRead(fsys, p)
  \/ LET implementationFile == implementationFileOf(fsys, p, ContentOf(fsys, p))
     IN implementationFile # <<>> /\ ~CanRead(fsys, implementationFile)

Thrown(files) == Cardinality({i \in 1..Len(files) : Throws(files[i])})

\* C18: the groups are processed one after another, each exactly once, and
\* every one of them eventually is; an error raised while a group is
\* processed is caught and adds one entry to knownIssues, and the loop goes
\* on; the statistics are generated after the last group, and they always
\* are.
C18_EveryGroupIsProcessed ==
  /\ [][ /\ gi' \in {gi, gi + 1}
         /\ GroupProcessed =>
              /\ pc = "loop" /\ pc' = "loop"
              /\ gi <= Len(groups)
              /\ Len(db'.knownIssues) = Len(db.knownIssues) + Thrown(groups[gi].files)
         /\ pc # "extracted" /\ pc' = "extracted" => gi = Len(groups) + 1 /\ gi' = gi ]_vars
  /\ \A k \in 1..MaxFiles : (pc = "loop" /\ k <= Len(groups)) ~> (gi > k)
  /\ <>(pc = "extracted")

\* the run is over; every file of its first group threw, and its second
\* group was stored all the same
C18_Witness ==
  /\ pc = "extracted"
  /\ Len(groups) = 2
  /\ gi = 3
  /\ \A i \in 1..Len(groups[1].files) : ~CanRead(fsys, groups[1].files[i])
  /\ Len(db.knownIssues) >= Len(groups[1].files)
  /\ Len(db.nodes) = 1
  /\ db.nodes[1].key = groups[2].key


\* C19: an entry of database.nodes, once stored, stays under its key with the
\* schema it was stored with for the rest of the run, and nodeCount, the
\* three quality counters, totalParametersExtracted and the length of
\* knownIssues never decrease.
C19_StoredEntriesAreKept ==
  [][ /\ \A i \in 1..Len(db.nodes) :
           /\ \E k \in 1..Len(db'.nodes) : db'.nodes[k] = db.nodes[i]
           /\ \A k \in 1..Len(db'.nodes) :
                db'.nodes[k].key = db.nodes[i].key => db'.nodes[k].schema = db.nodes[i].schema
      /\ db'.nodeCount >= db.nodeCount
      /\ db'.highQuality >= db.highQuality
      /\ db'.mediumQuality >= db.mediumQuality
      /\ db'.lowQuality >= db.lowQuality
      /\ db'.totalParametersExtracted >= db.totalParametersExtracted
      /\ Len(db'.knownIssues) >= Len(db.knownIssues) ]_vars

\* two groups were stored one after the other and the statistics generated
C19_Witness ==
  /\ pc = "extracted"
  /\ Len(db.nodes) = 2
  /\ db.nodes[1].key # db.nodes[2].key
  /\ db.nodeCount = 2


SelectionNotes(notes) ==
  SelectSeq(notes, LAMBDA n : n.k = "Selected best version from candidates")

\* the candidates of the last group that yielded a schema
Yielding == {i \in 1..Len(calls) : calls[i].result.ok}

\* C20: the schema stored for a group of several files is the schema of one
\* of its candidates with one note added at the end, the selection note,
\* which gives the number of candidates of the group that yielded a schema
\* and the path of that candidate; the schemas of the candidates themselves
\* and the schema stored for a single-file group carry no selection note.
C20_SelectionNoteEndsWinnerLog ==
  gi > 1 =>
    /\ \A i \in Yielding : SelectionNotes(calls[i].result.schema.extractionNotes) = <<>>
    /\ Len(calls) = 1 /\ Yielding # {} =>
         StoredSchema(LastGroup.key) = calls[1].result.schema
    /\ Len(calls) > 1 /\ Yielding # {} =>
         \E i \in Yielding :
           LET notes == StoredSchema(LastGroup.key).extractionNotes
           IN /\ notes = Append(calls[i].result.schema.extractionNotes,
                                Note("Selected best version from candidates",
                                     Cardinality(Yielding), calls[i].filePath))
              /\ [StoredSchema(LastGroup.key) EXCEPT !.extractionNotes = <<>>]
                   = [calls[i].result.schema EXCEPT !.extractionNotes = <<>>]

\* a group of three files, one of which yields no schema: the note counts two
C20_Witness ==
  /\ gi > 1
  /\ Len(calls) = 3
  /\ Cardinality(Yielding) = 2
  /\ SelectionNotes(StoredSchema(LastGroup.key).extractionNotes)
       = <<Note("Selected best version from candidates", 2,
                StoredSchema(LastGroup.key).extractionNotes[
                  Len(StoredSchema(LastGroup.key).extractionNotes)].p)>>


\* the process has ended
Exited == pc \in {"exit0", "exit1"}

\* the conditions that are fatal to the run
TopLevelFailure ==
  arg.globFails \/ arg.groupingThrows \/ ~arg.ignoredDirExists \/ arg.writable < 2

C22_FirstExistingCandidate ==
  pc = "return" /\ arg.S # {} =>
    ret = ResolveCandidates(arg.imp)[CHOOSE i \in arg.S : \A k \in arg.S : i <= k]


\* the entries of LocateEntries that exist, in the order the directory of
\* the wrapper lists them
Listed == [i \in 1..(Len(fsys) - 1) |-> fsys[i + 1].path]

PatternHits == SelectSeq([i \in 1..5 |-> LocateEntries[i]], LAMBDA p : IsFile(fsys, p))

\* the files a scan of the version directories accepts: a .node.ts file, in a
\* directory named V<digits> or v<digits>, whose name contains the base name
ScanHits ==
  SelectSeq(Listed, LAMBDA p :
    /\ Len(p) = Len(LocateDir) + 2
    /\ MatchVerWhole(p[Len(LocateDir) + 1]) # <<>>
    /\ EndsWith(basename(p), NodeExt)
    /\ Includes(basename(p), <<"Foo">>))

\* an entry named like a version directory that is a plain file
Unlistable(p) == Len(p) = Len(LocateDir) + 1 /\ MatchVerWhole(basename(p)) # <<>>

\* the listing up to the first entry that readdirSync cannot list
ListedBeforeUnlistable ==
  IF \E i \in 1..Len(Listed) : Unlistable(Listed[i])
  THEN SubSeq(Listed, 1, (CHOOSE i \in 1..Len(Listed) :
                            Unlistable(Listed[i]) /\ \A k \in 1..(i - 1) : ~Unlistable(Listed[k])) - 1)
  ELSE Listed

ResourceFile == ActionsDir \o << <<"x", ".resource", ".ts">> >>
OperationFile == ActionsDir \o << <<"y", ".operation", ".ts">> >>
VersionDescFile == ActionsDir \o << <<"versionDescription", ".ts">> >>

\* what the file at p declares: its properties arrays, then its exported
\* constant arrays; nothing when it is missing or cannot be read
Declared(p) ==
  IF CanRead(fsys, p)
  THEN parseElements(ContentOf(fsys, p).props)
       \o Flatten([i \in 1..Len(ContentOf(fsys, p).constProps) |->
                     parseElements(ContentOf(fsys, p).constProps[i])])
  ELSE <<>>

\* the contributions of the layers, in discovery order: the node file,
\* x.resource.ts with the operation file it imports, the operation files,
\* versionDescription.ts which spreads '../a'
LayerContributions ==
  << parseElements(Root.props),
     IF CanRead(fsys, ResourceFile)
     THEN parseElements(ContentOf(fsys, ResourceFile).props) \o Declared(OperationFile)
     ELSE <<>>,
     Declared(OperationFile),
     IF CanRead(fsys, VersionDescFile) THEN Contribution(ImportA) ELSE <<>> >>

\* the contributions to the parameters of the node file: those of the layers,
\* or the node file and its spread imports when no layering applies
Contributions ==
  IF Layered THEN LayerContributions
  ELSE <<parseElements(Root.props)>>
       \o [i \in 1..Len(Root.spreads) |-> Contribution(Root.spreads[i])]

\* the parameters that are not derived by the conditional expansion
BaseParameters(parameters) == SelectSeq(parameters, LAMBDA q : q.name.when = <<>>)

\* C24: the parameters of a schema before expansion are the contributions
\* one after the other in discovery order, as many as the contributions have
\* together; a parameter that several contributions hold is there once for
\* each.
C24_ContributionsAreConcatenated ==
  pc = "return" /\ CanRead(fsys, arg) =>
    /\ BaseParameters(ret.schema.parameters) = Flatten(Contributions)
    /\ Len(BaseParameters(ret.schema.parameters))
         = SumSeq([i \in 1..Len(Contributions) |-> Len(Contributions[i])])
    /\ ret.schema.parameters = expandConditionalParameters(Flatten(Contributions))

\* every layer contributes; y.operation.ts is reached twice, and its
\* constant declares the name that a.ts declares as well
C24_Witness ==
  /\ pc = "return"
  /\ CanRead(fsys, arg)
  /\ \A i \in 1..Len(Contributions) : Contributions[i] # <<>>
  /\ Len(Contributions) = 4
  /\ Len(BaseParameters(ret.schema.parameters)) = 8
  /\ Cardinality({BaseParameters(ret.schema.parameters)[i].name :
                    i \in 1..Len(BaseParameters(ret.schema.parameters))}) = 5


\* C25: a node file with an actions directory beside it is treated as
\* layered, whatever its own path: the resource and operation files under
\* that directory contribute to its parameters.
C25_SiblingActionsDirSelectsLayering ==
  pc = "return" /\ CanRead(fsys, arg) /\ IsDir(fsys, ActionsDir) =>
    /\ BaseParameters(ret.schema.parameters) = Flatten(LayerContributions)
    /\ \E i \in 1..Len(ret.schema.extractionNotes) :
         ret.schema.extractionNotes[i].k = "Detected v2+ node structure with actions directory"


\* the key the claim gives the file at p
KeyOf(p) ==
  IF StripVerSuffix(basenameNode(p)) = <<"index">>
     \/ Includes(StripVerSuffix(basenameNode(p)), <<"Test">>)
  THEN toLowerCase(StripVerSuffix(dirBasename(p)))
  ELSE toLowerCase(StripVerSuffix(basenameNode(p)))

\* the files of arg with key k, in the order of arg
FilesOf(k) == SelectSeq(arg, LAMBDA p : KeyOf(p) = k)

\* gs partitions the files of arg by key: one group for each key, holding the
\* files of that key in enumeration order
Partitions(gs) ==
  /\ \A i, k \in 1..Len(gs) : gs[i].key = gs[k].key => i = k
  /\ {gs[i].key : i \in 1..Len(gs)} = {KeyOf(arg[i]) : i \in 1..Len(arg)}
  /\ \A i \in 1..Len(gs) : gs[i].files = FilesOf(gs[i].key)
  /\ SumSeq([i \in 1..Len(gs) |-> Len(gs[i].files)]) = Len(arg)

\* C26: grouping ends with a partition of the files it was given: each file
\* in exactly one group, the group of its key, in enumeration order; and a
\* file that is alone in its group is stored under the key of the group.
C26_GroupingPartitions ==
  pc # "call" =>
    /\ pc = "return"
    /\ Partitions(ret)
    /\ \A i \in 1..Len(ret) :
         Len(ret[i].files) = 1 => extractBaseNodeName(ret[i].files[1]) = ret[i].key


\* the tree with the imports of the imported files left out
WithoutNestedImports ==
  [i \in 1..Len(fsys) |->
     IF EndsWith(basename(fsys[i].path), NodeExt) THEN fsys[i]
     ELSE File(fsys[i].path, [fsys[i].c EXCEPT !.spreads = <<>>])]

\* C27: parseNodeFile returns on every tree, one whose files import each
\* other included: a redirect goes to a file strictly deeper in the tree
\* than the wrapper, the calls come to an end, and what is returned is what
\* the tree gives when the imports of the imported files are left out.
C27_ParseTerminates ==
  /\ [][ gi' # gi =>
           /\ Len(arg'.current) > Len(arg.current)
           /\ SubSeq(arg'.current, 1, Len(arg.current) - 1) = dirname(arg.current) ]_vars
  /\ <>(pc = "return")
  /\ [](pc = "return" =>
          /\ ret = parseNodeFile(fsys, arg.filePath)
          /\ ret = parseNodeFile(WithoutNestedImports, arg.filePath))

\* two redirects, then a node whose import './a' is in a cycle with './b'
C27_Witness ==
  /\ pc = "return"
  /\ arg.current = RedirectFiles[3]
  /\ gi = 3
  /\ ret.ok
  /\ Len(ret.schema.parameters) = 3
  /\ IsFile(fsys, dirname(arg.current) \o << <<"b", ".ts">> >>)


\* the number of stored schemas of a tier
StoredOfTier(q) ==
  Cardinality({i \in 1..Len(db.nodes) : db.nodes[i].schema.extractionQuality = q})

\* C28: at every point of the run nodeCount is the number of keys of
\* database.nodes and the sum of the three tier counters, each tier counter
\* is the number of stored schemas of its tier, and every key is the key of
\* one group already processed, no two entries sharing a key.
C28_CountersMatchStoredNodes ==
  /\ db.nodeCount = Cardinality({db.nodes[i].key : i \in 1..Len(db.nodes)})
  /\ db.nodeCount = Len(db.nodes)
  /\ db.nodeCount = db.highQuality + db.mediumQuality + db.lowQuality
  /\ db.highQuality = StoredOfTier("high")
  /\ db.mediumQuality = StoredOfTier("medium")
  /\ db.lowQuality = StoredOfTier("low")
  /\ \A i \in 1..Len(db.nodes) :
       Cardinality({k \in 1..(gi - 1) : groups[k].key = db.nodes[i].key}) = 1

\* two groups stored, one schema of quality high and one of another tier
C28_Witness ==
  /\ pc = "extracted"
  /\ gi = 3
  /\ db.nodeCount = 2
  /\ db.highQuality = 1
  /\ db.mediumQuality + db.lowQuality = 1


\* C29: once the run is over, totalParametersExtracted is the sum of the
\* lengths of the parameter lists of the stored schemas, and the average is
\* their mean.
C29_TotalCountsStoredParameters ==
  pc = "extracted" =>
    /\ db.totalParametersExtracted
         = SumSeq([i \in 1..Len(db.nodes) |-> Len(db.nodes[i].schema.parameters)])
    /\ db.nodeCount > 0 =>
         db.averageParametersPerNode.num * db.nodeCount
           = SumSeq([i \in 1..Len(db.nodes) |-> Len(db.nodes[i].schema.parameters)])
               * db.averageParametersPerNode.den


\* the candidate whose schema was stored for the last group
Winner == CHOOSE i \in 1..Len(versions) : Belongs(StoredSchema(LastGroup.key), versions[i])

\* C30: the path named in the selection note of a multi-file group, and the
\* path the winner's priority was computed from, is the path of the file
\* the stored schema was read from, also when the winning candidate is a
\* wrapper that was redirected to its implementation file.
C30_WinnerPathIsSchemaSource ==
  MultiFileGroupStored =>
    LET stored == StoredSchema(LastGroup.key)
    IN /\ stored.extractionNotes[Len(stored.extractionNotes)].p = stored.sourceFile
       /\ versions[Winner].priority
            = calculateVersionPriority(stored.sourceFile, versions[Winner].schema)

====
